---- MODULE Spec2Model ----
(***************************************************************************)
(* Webhook / event delivery subsystem of saleor/plugins/webhook/tasks.py.  *)
(*                                                                         *)
(* The store holds EventPayload, EventDelivery and DeliveryAttempt rows.   *)
(* Specifications over the same variables:                                 *)
(*   Spec       - trigger_webhooks_async and the retry chains of           *)
(*                send_webhook_request_async run by the task queue, or one *)
(*                call of trigger_webhook_sync;                            *)
(*   SpecSync   - one invocation of trigger_all_webhooks_sync, one loop    *)
(*                iteration per step, or one call of trigger_webhook_sync; *)
(*   SpecSteps  - the same invocation, one step per store or network       *)
(*                operation;                                               *)
(*   SpecFanout - one call of trigger_webhooks_async over longer lists;    *)
(*   SpecDup    - retry chains with task messages delivered twice;         *)
(*   SpecObs    - send_observability_events;                               *)
(*   SpecSqs    - send_webhook_using_aws_sqs;                              *)
(*   SpecApi    - the mutations that publish events through the plugin;    *)
(*   SpecInFlight - executions followed through the transport call, which  *)
(*                a killed worker never leaves;                            *)
(*   SpecShared - one event fanned out to several webhooks and the retry   *)
(*                chains of its deliveries interleaved;                    *)
(*   SpecReporter - observability_reporter_task and                        *)
(*                observability_send_events on the event buffer;           *)
(*   SpecPayment - try_payment_action around a synchronous webhook call.   *)
(***************************************************************************)
EXTENDS Integers, Sequences, FiniteSets, TLC

VARIABLES
    inactive,     \* set of webhooks whose is_active is False
    payloads,     \* EventPayload rows, id = index
    deliveries,   \* EventDelivery rows, id = index
    attempts,     \* DeliveryAttempt rows of each delivery, in creation order
    calls,        \* transport calls made for each delivery, in order
    writes,       \* status values written to each delivery, in order
    queue,        \* executions of send_webhook_request_async waiting in the task queue
    ret,          \* how the last handler invocation ended
    frame,        \* the running invocation of trigger_all_webhooks_sync
    duplicates,   \* task messages the broker has delivered a second time
    reports,      \* calls of observability.report_event_delivery_attempt, per delivery
    obs,          \* the running invocation of send_observability_events
    sqs,          \* the last invocation of send_webhook_using_aws_sqs
    api,          \* the running mutation and its calls of trigger_webhooks_async
    running,      \* the execution of send_webhook_request_async whose transport call is open
    delayed,      \* the arguments of send_webhook_request_async.delay, in call order
    reporter,     \* the observability buffer, its webhooks and the tasks that flush it
    payment       \* the order of try_payment_action and how its last call ended

\* The variables only some specifications move.
\* The variables of the latest additions to the model.
later == <<delayed, reporter, payment>>

side == <<obs, sqs, api, running, later>>

extra == <<duplicates, side>>

vars == <<inactive, payloads, deliveries, attempts, calls, writes, reports, queue,
          ret, frame, extra>>

(***************************************************************************)
(* Bounds of the model.                                                    *)
(***************************************************************************)
MaxHooks == 3      \* longest webhook list get_webhooks_for_event returns
MaxFanout == 1     \* longest webhook list handed to trigger_webhooks_async
MaxDuplicates == 1 \* task messages delivered twice
MaxEvents == 2     \* largest batch handed to send_observability_events
MaxObsHooks == 2   \* longest list of observability webhooks
MaxLabels == 5     \* most labels in the host name of an SQS target URL
MaxSales == 3      \* most sales one bulk delete names

(***************************************************************************)
(* Program constants.                                                      *)
(***************************************************************************)
retry_backoff == 10
max_retries == 5

PENDING == "pending"
SUCCESS == "success"
FAILED == "failed"
EventDeliveryStatus == {PENDING, SUCCESS, FAILED}

None == 0

\* WebhookSchemes, and one scheme that is not in the enum.
HTTP == "http"
HTTPS == "https"
AWS_SQS == "awssqs"
GOOGLE_CLOUD_PUBSUB == "gcpubsub"
WebhookSchemes == {HTTP, HTTPS, AWS_SQS, GOOGLE_CLOUD_PUBSUB}

\* Event types; "any_events" has no subscription type.
EventTypes == {"payment_list_gateways", "any_events"}
CUSTOMER_DELETED == "customer_deleted"
SALE_DELETED == "sale_deleted"
WEBHOOK_TYPES_MAP == {"payment_list_gateways", CUSTOMER_DELETED, SALE_DELETED}

\* The payload text the event's generator gives for a fixed-schema webhook,
\* where the model does not follow what the text says.
EventData == [kind |-> "data", webhook |-> None]

(***************************************************************************)
(* Webhook registrations.  subscription_query selects subscription-mode    *)
(* rendering; renders_data says whether generate_payload_from_subscription *)
(* yields data for the query; scheme is urlparse(target_url).scheme;       *)
(* secret_key is the webhook's signing secret.                             *)
(***************************************************************************)
WebhookTable ==
    << [subscription_query |-> FALSE, renders_data |-> TRUE,  scheme |-> HTTP, secret_key |-> "k1"],
       [subscription_query |-> TRUE,  renders_data |-> TRUE,  scheme |-> HTTPS, secret_key |-> "k2"],
       [subscription_query |-> TRUE,  renders_data |-> FALSE, scheme |-> HTTP, secret_key |-> "k3"],
       [subscription_query |-> FALSE, renders_data |-> TRUE,  scheme |-> HTTPS, secret_key |-> "k4"],
       [subscription_query |-> FALSE, renders_data |-> TRUE,  scheme |-> AWS_SQS, secret_key |-> "k5"],
       [subscription_query |-> TRUE,  renders_data |-> TRUE,  scheme |-> GOOGLE_CLOUD_PUBSUB, secret_key |-> "k6"],
       [subscription_query |-> FALSE, renders_data |-> TRUE,  scheme |-> "ftp", secret_key |-> "k7"] >>

Webhooks == 1..Len(WebhookTable)

\* The lists of exactly n distinct webhooks drawn from the set ws.
RECURSIVE WebhookLists(_, _)
WebhookLists(ws, n) ==
    IF n = 0 THEN {<<>>}
    ELSE UNION {{Append(l, w) : w \in {x \in ws : \A i \in 1..Len(l) : l[i] # x}} :
                   l \in WebhookLists(ws, n - 1)}

\* The lists of at most n distinct active webhooks.
ActiveWebhookLists(n) ==
    UNION {WebhookLists(Webhooks \ inactive, k) : k \in 0..n}

get_webhooks_for_event == ActiveWebhookLists(MaxHooks)

(***************************************************************************)
(* The store as a value, so that the handlers can be composed.             *)
(***************************************************************************)
Store ==
    [payloads |-> payloads, deliveries |-> deliveries, attempts |-> attempts,
     calls |-> calls, writes |-> writes, reports |-> reports]

EmptyStore ==
    [payloads |-> <<>>, deliveries |-> <<>>, attempts |-> <<>>,
     calls |-> <<>>, writes |-> <<>>, reports |-> <<>>]

\* EventPayload.objects.create(payload=...); the new row's id is Len(payloads).
EventPayload_create(s, body) ==
    [s EXCEPT !.payloads = Append(@, [payload |-> body, deleted |-> FALSE])]

\* EventDelivery.objects.create(status, event_type, payload, webhook)
EventDelivery_create(s, status, event_type, payload, webhook) ==
    [s EXCEPT !.deliveries = Append(@, [status |-> status, event_type |-> event_type,
                                         payload |-> payload, webhook |-> webhook,
                                         deleted |-> FALSE]),
              !.attempts = Append(@, <<>>),
              !.calls = Append(@, <<>>),
              !.writes = Append(@, <<status>>),
              !.reports = Append(@, <<>>)]

\* utils.create_attempt: a new pending attempt row without response fields.
create_attempt(s, delivery, task_id) ==
    [s EXCEPT !.attempts[delivery] =
        Append(@, [task_id |-> task_id, status |-> PENDING,
                   response |-> [from |-> None, body |-> "unset"]])]

\* utils.attempt_update: attach the response to the attempt.
attempt_update(s, delivery, attempt, response) ==
    [s EXCEPT !.attempts[delivery][attempt].status = response.status,
              !.attempts[delivery][attempt].response = response.content]

\* utils.delivery_update: set the delivery's status.
delivery_update(s, delivery, status) ==
    [s EXCEPT !.deliveries[delivery].status = status,
              !.writes[delivery] = Append(@, status)]

\* utils.clear_successful_delivery: detach the payload of a successful delivery.
clear_successful_delivery(s, delivery) ==
    IF s.deliveries[delivery].status = SUCCESS
    THEN [s EXCEPT !.deliveries[delivery].payload = None]
    ELSE s

\* data.encode("utf-8"): the bytes of the payload text.
encode(data) == [utf8 |-> data]

\* The signature of the message under the secret; it stands for the digest
\* by naming what was signed and with which key.
signature_for_payload(message, secret_key) == [signed |-> message, key |-> secret_key]

\* observability.report_event_delivery_attempt(attempt, next_retry)
report_event_delivery_attempt(s, delivery, attempt, next_retry) ==
    [s EXCEPT !.reports[delivery] =
        Append(@, [attempt |-> attempt, next_retry |-> next_retry])]

\* The transport function was invoked with the message and the signature and
\* started a network call for the delivery.
transport_call(s, delivery, transport, message, signature) ==
    [s EXCEPT !.calls[delivery] =
        Append(@, [transport |-> transport, message |-> message,
                   signature |-> signature])]

(***************************************************************************)
(* WebhookResponse values.  The content names the endpoint it came from,   *)
(* so that a parsed result can be traced back to the webhook that gave it. *)
(***************************************************************************)
WebhookResponse(content, status) == [content |-> content, status |-> status]

\* Bodies an HTTP endpoint may answer with: a JSON document parse_response
\* accepts, a JSON document it rejects, and text that is not JSON.
Bodies == {"gateways", "[]", "<html>"}

\* What send_webhook_using_http may return for a POST to the webhook:
\* SUCCESS if response.ok, FAILED for a non-2xx answer or a RequestException.
HttpResponses(webhook) ==
    {WebhookResponse([from |-> webhook, body |-> b], st) :
        b \in Bodies, st \in {SUCCESS, FAILED}}

\* What the network and the client libraries may do with one send.
HttpOutcomes == {"ok", "not_ok", "RequestException"}
SqsOutcomes == {"sent", "ClientError"}
PubSubOutcomes == {"published", "MessageTooLargeError", "RuntimeError", "future_error"}

Sent(webhook) == WebhookResponse([from |-> webhook, body |-> "ok"], SUCCESS)
SendFailed(webhook) == WebhookResponse([from |-> webhook, body |-> "error"], FAILED)
\* The sender did not return: an exception left it.
SendRaised(webhook) == WebhookResponse([from |-> webhook, body |-> "exception"], "raised")

\* Lines 325-355: a RequestException and an answer that is not ok give FAILED.
send_webhook_using_http(webhook, outcome) ==
    IF outcome = "ok" THEN Sent(webhook) ELSE SendFailed(webhook)

\* Lines 405-412: ClientError is caught around send_message.
send_webhook_using_aws_sqs(webhook, outcome) ==
    IF outcome = "ClientError" THEN SendFailed(webhook) ELSE Sent(webhook)

\* Lines 421-435: MessageTooLargeError and RuntimeError are caught around
\* publish; future.result() is called after the try statement.
send_webhook_using_google_cloud_pubsub(webhook, outcome) ==
    IF outcome \in {"MessageTooLargeError", "RuntimeError"} THEN SendFailed(webhook)
    ELSE IF outcome = "future_error" THEN SendRaised(webhook)
    ELSE Sent(webhook)

\* What the sender chosen for the webhook's scheme may hand back to
\* send_webhook_request_async.  A scheme without a sender never gets that
\* far; its set only gives the task something to be run with.
TransportResponses(webhook) ==
    LET scheme == WebhookTable[webhook].scheme
    IN  IF scheme \in {HTTP, HTTPS}
        THEN {send_webhook_using_http(webhook, o) : o \in HttpOutcomes}
        ELSE IF scheme = AWS_SQS
        THEN {send_webhook_using_aws_sqs(webhook, o) : o \in SqsOutcomes}
        ELSE IF scheme = GOOGLE_CLOUD_PUBSUB
        THEN {send_webhook_using_google_cloud_pubsub(webhook, o) : o \in PubSubOutcomes}
        ELSE {Sent(webhook), SendFailed(webhook)}

NoData == [from |-> None, body |-> "None"]

\* json.loads(response.content): the document, or JSONDecodeError.
json_loads(content) ==
    IF content.body \in {"gateways", "[]"}
    THEN [error |-> FALSE, data |-> content]
    ELSE [error |-> TRUE, data |-> NoData]

\* The caller's parse_response: the parsed result (named by the endpoint that
\* gave it) for an acceptable document, a falsy value otherwise.
parse_response(response_data) ==
    IF response_data.body = "gateways" THEN response_data.from ELSE None

(***************************************************************************)
(* send_webhook_request_sync                                               *)
(***************************************************************************)
Returned(s, value) == [s |-> s, outcome |-> "return", error |-> "", value |-> value]
Raised(s, error) == [s |-> s, outcome |-> "raise", error |-> error, value |-> NoData]

\* Faulty variant: the POST is made whatever the scheme of the target is.
sync_post_sends_any_scheme(s, delivery) ==
    LET webhook == s.deliveries[delivery].webhook
        message == encode(s.payloads[s.deliveries[delivery].payload].payload)
        signature == signature_for_payload(message, WebhookTable[webhook].secret_key)
        s1 == create_attempt(s, delivery, None)
    IN  Returned(
            transport_call(s1, delivery, "send_webhook_using_http", message, signature),
            NoData)

\* Lines 549-582, up to the start of the POST: the scheme check, the attempt
\* row and the call of send_webhook_using_http.
sync_post(s, delivery) ==
    LET webhook == s.deliveries[delivery].webhook
        scheme == WebhookTable[webhook].scheme
        message == encode(s.payloads[s.deliveries[delivery].payload].payload)
        signature == signature_for_payload(message, WebhookTable[webhook].secret_key)
    IN  IF scheme \notin {HTTP, HTTPS}
        THEN Raised(delivery_update(s, delivery, FAILED), "ValueError")
        ELSE LET s1 == create_attempt(s, delivery, None)
             IN  Returned(
                     transport_call(s1, delivery, "send_webhook_using_http", message, signature),
                     NoData)

\* Faulty variant: the decoded body is returned whatever the status is.
sync_answer_returns_any_json(s, delivery, http_response) ==
    LET attempt == Len(s.attempts[delivery])
        decoded == json_loads(http_response.content)
        response == IF decoded.error
                    THEN WebhookResponse(http_response.content, FAILED)
                    ELSE http_response
        s3 == attempt_update(s, delivery, attempt, response)
        s4 == delivery_update(s3, delivery, response.status)
        s5 == clear_successful_delivery(
                  report_event_delivery_attempt(s4, delivery, attempt, None), delivery)
    IN  Returned(s5, decoded.data)

\* Lines 582-615: the answer has come; decode it and record the outcome on
\* the attempt of the execution, the last one of the delivery.
sync_answer(s, delivery, http_response) ==
    LET attempt == Len(s.attempts[delivery])
        decoded == json_loads(http_response.content)
        response == IF decoded.error
                    THEN WebhookResponse(http_response.content, FAILED)
                    ELSE http_response
        s3 == attempt_update(s, delivery, attempt, response)
        s4 == delivery_update(s3, delivery, response.status)
        s5 == clear_successful_delivery(
                  report_event_delivery_attempt(s4, delivery, attempt, None), delivery)
    IN  Returned(s5, IF response.status = SUCCESS THEN decoded.data ELSE NoData)

send_webhook_request_sync(s, delivery, http_response) ==
    LET posted == sync_post(s, delivery)
    IN  IF posted.outcome = "raise"
        THEN posted
        ELSE sync_answer(posted.s, delivery, http_response)

(***************************************************************************)
(* create_delivery_for_subscription_sync_event: value is the new           *)
(* delivery's id, or None.                                                 *)
(***************************************************************************)
\* Faulty variant: empty data is skipped as in the async fan-out, nothing is raised.
no_payload_generated_skips(s) ==
    [s |-> s, outcome |-> "return", error |-> "", delivery |-> None]

\* Lines 155-161: no payload was generated.
no_payload_generated(s) ==
    [s |-> s, outcome |-> "raise", error |-> "PaymentError", delivery |-> None]

create_delivery_for_subscription_sync_event(s, event_type, webhook) ==
    IF event_type \notin WEBHOOK_TYPES_MAP
    THEN [s |-> s, outcome |-> "return", error |-> "", delivery |-> None]
    ELSE IF ~WebhookTable[webhook].renders_data
    THEN no_payload_generated(s)
    ELSE LET s1 == EventPayload_create(s, [kind |-> "subscription", webhook |-> webhook])
             s2 == EventDelivery_create(s1, PENDING, event_type, Len(s1.payloads), webhook)
         IN  [s |-> s2, outcome |-> "return", error |-> "", delivery |-> Len(s2.deliveries)]

(***************************************************************************)
(* trigger_webhook_sync; webhook = None models a call without a webhook.   *)
(***************************************************************************)
\* Faulty variant: a missing webhook gives None instead of an error.
no_webhook_returns_none(s) == Returned(s, NoData)

\* Lines 224-225: no webhook was supplied.
no_webhook(s) == Raised(s, "PaymentError")

trigger_webhook_sync(s, event_type, webhook, http_response) ==
    IF webhook = None
    THEN no_webhook(s)
    ELSE IF WebhookTable[webhook].subscription_query
    THEN LET c == create_delivery_for_subscription_sync_event(s, event_type, webhook)
         IN  IF c.outcome = "raise" THEN Raised(c.s, c.error)
             ELSE IF c.delivery = None THEN Returned(c.s, NoData)
             ELSE send_webhook_request_sync(c.s, c.delivery, http_response)
    ELSE LET s1 == EventPayload_create(s, EventData)
             s2 == EventDelivery_create(s1, PENDING, event_type, Len(s1.payloads), webhook)
         IN  send_webhook_request_sync(s2, Len(s2.deliveries), http_response)

(***************************************************************************)
(* trigger_all_webhooks_sync.  The frame holds the locals of the running   *)
(* invocation: the webhook list, the loop position i, request_context,     *)
(* event_payload, and how the invocation ended.  initialized counts the    *)
(* calls of initialize_request, whose k-th call returns the request object *)
(* k; renderings lists the request object each call of                     *)
(* generate_payload_from_subscription was given; delivery is the local     *)
(* variable of that name, read where the invocation is followed statement  *)
(* by statement.                                                           *)
(***************************************************************************)
IdleFrame ==
    [pc |-> "idle", event_type |-> "any_events", webhooks |-> <<>>, i |-> 1,
     request_context |-> None, event_payload |-> None,
     result |-> None, error |-> "", initialized |-> 0, renderings |-> <<>>,
     delivery |-> None]

\* Lines 266-268: the locals before the loop.
trigger_all_enter(event_type, webhooks) ==
    [IdleFrame EXCEPT !.pc = "loop", !.event_type = event_type, !.webhooks = webhooks]

\* Faulty variant: an accepted response ends the loop only at the last webhook.
loop_after_response_keeps_calling(f, parsed_response) ==
    IF parsed_response # None /\ f.i = Len(f.webhooks)
    THEN [f EXCEPT !.pc = "returned", !.result = parsed_response]
    ELSE [f EXCEPT !.i = @ + 1]

\* Faulty variant: the parsed response is returned whether or not it is truthy.
loop_after_response_returns_any(f, parsed_response) ==
    [f EXCEPT !.pc = "returned", !.result = parsed_response]

\* Lines 295-296: return the parsed response if truthy, else go on.
loop_after_response(f, parsed_response) ==
    IF parsed_response # None
    THEN [f EXCEPT !.pc = "returned", !.result = parsed_response]
    ELSE [f EXCEPT !.i = @ + 1]

\* Lines 294-296: send the delivery, then parse the response.
loop_send(f, s, delivery, http_response) ==
    LET r == send_webhook_request_sync(s, delivery, http_response)
    IN  IF r.outcome = "raise"
        THEN [s |-> r.s, f |-> [f EXCEPT !.pc = "raised", !.error = r.error]]
        ELSE [s |-> r.s, f |-> loop_after_response(f, parse_response(r.value))]

\* Faulty variant: a request context is built for every subscription-mode webhook.
request_context_per_webhook(f) ==
    [f EXCEPT !.initialized = @ + 1, !.request_context = f.initialized + 1]

\* Lines 271-274: build the request context unless there is one already.
lazy_request_context(f) ==
    IF f.request_context = None
    THEN [f EXCEPT !.initialized = @ + 1, !.request_context = f.initialized + 1]
    ELSE f

\* Lines 139-154 seen from the caller: for a subscribable event the payload
\* is rendered with the request passed in, or with a new one if none was.
rendering_request(f, request) ==
    IF f.event_type \notin WEBHOOK_TYPES_MAP THEN f
    ELSE IF request = None
    THEN [f EXCEPT !.initialized = @ + 1,
                   !.renderings = Append(@, f.initialized + 1)]
    ELSE [f EXCEPT !.renderings = Append(@, request)]

\* Lines 270-283: the delivery of a subscription-mode webhook, or the end
\* of the invocation.
subscription_delivery(f, s, webhook) ==
    LET f0 == lazy_request_context(f)
        f1 == rendering_request(f0, f0.request_context)
        c == create_delivery_for_subscription_sync_event(s, f.event_type, webhook)
    IN  IF c.outcome = "raise"
        THEN [s |-> c.s, f |-> [f1 EXCEPT !.pc = "raised", !.error = c.error],
              delivery |-> None]
        ELSE IF c.delivery = None
        THEN [s |-> c.s, f |-> [f1 EXCEPT !.pc = "returned", !.result = None],
              delivery |-> None]
        ELSE [s |-> c.s, f |-> f1, delivery |-> c.delivery]

\* Faulty variant: generate_payload is called for every fixed-schema webhook.
regular_delivery_payload_per_webhook(f, s, webhook) ==
    LET s1 == EventPayload_create(s, [kind |-> "generated", webhook |-> None])
        f1 == [f EXCEPT !.event_payload = Len(s1.payloads)]
        s2 == EventDelivery_create(s1, PENDING, f.event_type, f1.event_payload, webhook)
    IN  [s |-> s2, f |-> f1, delivery |-> Len(s2.deliveries)]

\* Lines 284-292: the delivery of a fixed-schema webhook.
regular_delivery(f, s, webhook) ==
    LET s1 == IF f.event_payload = None
              THEN EventPayload_create(s, [kind |-> "generated", webhook |-> None])
              ELSE s
        f1 == IF f.event_payload = None
              THEN [f EXCEPT !.event_payload = Len(s1.payloads)]
              ELSE f
        s2 == EventDelivery_create(s1, PENDING, f.event_type, f1.event_payload, webhook)
    IN  [s |-> s2, f |-> f1, delivery |-> Len(s2.deliveries)]

\* Lines 269-292: the first half of an iteration, for the webhook at position i.
loop_delivery(f, s) ==
    LET webhook == f.webhooks[f.i]
    IN  IF WebhookTable[webhook].subscription_query
        THEN subscription_delivery(f, s, webhook)
        ELSE regular_delivery(f, s, webhook)

\* Lines 270-283 and 294-296: a whole iteration for a subscription-mode webhook.
loop_subscription(f, s, webhook, http_response) ==
    LET c == subscription_delivery(f, s, webhook)
    IN  IF c.delivery = None
        THEN [s |-> c.s, f |-> c.f]
        ELSE loop_send(c.f, c.s, c.delivery, http_response)

\* Lines 284-296: a whole iteration for a fixed-schema webhook.
loop_regular(f, s, webhook, http_response) ==
    LET c == regular_delivery(f, s, webhook)
    IN  loop_send(c.f, c.s, c.delivery, http_response)

\* One iteration of the for loop, for the webhook at position i.
loop_body(f, s, http_response) ==
    LET webhook == f.webhooks[f.i]
    IN  IF WebhookTable[webhook].subscription_query
        THEN loop_subscription(f, s, webhook, http_response)
        ELSE loop_regular(f, s, webhook, http_response)

SetStore(s) ==
    /\ payloads' = s.payloads
    /\ deliveries' = s.deliveries
    /\ attempts' = s.attempts
    /\ calls' = s.calls
    /\ writes' = s.writes
    /\ reports' = s.reports

NoRet == [op |-> "none", outcome |-> "none", error |-> "", value |-> NoData,
          id |-> None, retries |-> 0, cause |-> "none", webhook |-> None,
          event_type |-> "none", webhooks |-> <<>>]

TriggerAllStart(event_type, webhooks) ==
    /\ frame.pc = "idle"
    /\ ret.op = "none"
    /\ frame' = trigger_all_enter(event_type, webhooks)
    /\ UNCHANGED <<inactive, payloads, deliveries, attempts, calls, writes, reports, queue, ret, extra>>

TriggerAllIter(http_response) ==
    /\ frame.pc = "loop"
    /\ frame.i <= Len(frame.webhooks)
    /\ http_response \in HttpResponses(frame.webhooks[frame.i])
    /\ LET r == loop_body(frame, Store, http_response)
       IN  /\ SetStore(r.s)
           /\ frame' = r.f
    /\ UNCHANGED <<inactive, queue, ret, extra>>

\* Line 297: the loop ran out of webhooks.
TriggerAllExhausted ==
    /\ frame.pc = "loop"
    /\ frame.i > Len(frame.webhooks)
    /\ frame' = [frame EXCEPT !.pc = "returned", !.result = None]
    /\ UNCHANGED <<inactive, payloads, deliveries, attempts, calls, writes, reports, queue, ret, extra>>

(***************************************************************************)
(* The same invocation followed statement by statement: the delivery is    *)
(* created, the POST is started, the answer is recorded.                   *)
(***************************************************************************)
StepCreate ==
    /\ frame.pc = "loop"
    /\ frame.i <= Len(frame.webhooks)
    /\ LET c == loop_delivery(frame, Store)
       IN  /\ SetStore(c.s)
           /\ frame' = IF c.delivery = None
                        THEN c.f
                        ELSE [c.f EXCEPT !.pc = "created", !.delivery = c.delivery]
    /\ UNCHANGED <<inactive, queue, ret, extra>>

\* Faulty variant: the loop does not wait for the answer of the POST.
after_post_goes_on(f) == [f EXCEPT !.pc = "loop", !.i = @ + 1, !.delivery = None]

\* Lines 574-581: requests.post returns only when the answer is there.
after_post(f) == [f EXCEPT !.pc = "in_flight"]

StepPost ==
    /\ frame.pc = "created"
    /\ LET r == sync_post(Store, frame.delivery)
       IN  /\ SetStore(r.s)
           /\ frame' = IF r.outcome = "raise"
                        THEN [frame EXCEPT !.pc = "raised", !.error = r.error,
                                           !.delivery = None]
                        ELSE after_post(frame)
    /\ UNCHANGED <<inactive, queue, ret, extra>>

\* The order before any payment action: no event, never refreshed.
NewOrder == [events |-> <<>>, refreshed |-> 0]

NoPaymentAction ==
    [order |-> NewOrder, actions |-> 0,
     func |-> [outcome |-> "none", error |-> "", value |-> NoData],
     before |-> NewOrder, outcome |-> "none", error |-> "", code |-> "", value |-> NoData]

\* No observability task has run: no webhook, an empty buffer, no sender task.
NoFlush ==
    [op |-> "none", webhooks |-> <<>>, buffer_before |-> <<>>, buffer_after |-> <<>>,
     popped |-> <<>>, batch_count |-> 0, enqueued |-> 0, sends |-> <<>>]

ReporterIdle ==
    [webhooks |-> <<>>, configured |-> FALSE, buffer |-> <<>>, produced |-> 0,
     tasks |-> 0, last |-> NoFlush]

\* No execution of send_webhook_request_async is inside its transport call.
NotRunning == [pc |-> "idle", task |-> [event_delivery_id |-> None], attempt |-> None]

\* No mutation has run.
ApiIdle ==
    [pc |-> "idle", op |-> "none", event_type |-> "none", objects |-> <<>>, i |-> 1,
     webhooks |-> <<>>, requestor |-> "none", calls |-> <<>>]

\* send_webhook_using_aws_sqs has not been called.
SqsIdle == [pc |-> "idle"]

\* No invocation of send_observability_events is running.
ObsIdle ==
    [pc |-> "idle", webhooks |-> <<>>, events |-> <<>>, w |-> 1,
     sent |-> <<>>, dropped |-> <<>>]

StepAnswer(http_response) ==
    /\ frame.pc = "in_flight"
    /\ http_response \in HttpResponses(frame.webhooks[frame.i])
    /\ LET r == sync_answer(Store, frame.delivery, http_response)
       IN  /\ SetStore(r.s)
           /\ frame' = loop_after_response(
                            [frame EXCEPT !.pc = "loop", !.delivery = None],
                            parse_response(r.value))
    /\ UNCHANGED <<inactive, queue, ret, extra>>

Init ==
    /\ inactive = {}
    /\ payloads = <<>>
    /\ deliveries = <<>>
    /\ attempts = <<>>
    /\ calls = <<>>
    /\ writes = <<>>
    /\ reports = <<>>
    /\ queue = {}
    /\ ret = NoRet
    /\ frame = IdleFrame
    /\ duplicates = 0
    /\ obs = ObsIdle
    /\ sqs = SqsIdle
    /\ api = ApiIdle
    /\ running = NotRunning
    /\ delayed = <<>>
    /\ reporter = ReporterIdle
    /\ payment = NoPaymentAction


(***************************************************************************)
(* trigger_webhooks_async and the helpers it calls.                        *)
(***************************************************************************)
IsSubscription(webhook) == WebhookTable[webhook].subscription_query
IsRegular(webhook) == ~WebhookTable[webhook].subscription_query

\* group_webhooks_by_subscription: <<regular, subscription>>
group_webhooks_by_subscription(webhooks) ==
    <<SelectSeq(webhooks, IsRegular), SelectSeq(webhooks, IsSubscription)>>

\* utils.create_event_delivery_list_for_webhooks: one pending delivery per
\* webhook, all of them referencing event_payload.
RECURSIVE create_event_delivery_list_for_webhooks(_, _, _, _)
create_event_delivery_list_for_webhooks(s, webhooks, event_payload, event_type) ==
    IF webhooks = <<>> THEN s
    ELSE create_event_delivery_list_for_webhooks(
             EventDelivery_create(s, PENDING, event_type, event_payload, Head(webhooks)),
             Tail(webhooks), event_payload, event_type)

\* Faulty variant: the loop ends at the first webhook without data.
RECURSIVE subscription_deliveries_stops(_, _, _)
subscription_deliveries_stops(s, event_type, webhooks) ==
    IF webhooks = <<>> THEN s
    ELSE LET webhook == Head(webhooks)
         IN  IF ~WebhookTable[webhook].renders_data
             THEN s
             ELSE LET s1 == EventPayload_create(s, [kind |-> "subscription", webhook |-> webhook])
                      s2 == EventDelivery_create(s1, PENDING, event_type, Len(s1.payloads), webhook)
                  IN  subscription_deliveries_stops(s2, event_type, Tail(webhooks))

\* Lines 93-118: the loop of create_deliveries_for_subscriptions.
RECURSIVE subscription_deliveries(_, _, _)
subscription_deliveries(s, event_type, webhooks) ==
    IF webhooks = <<>> THEN s
    ELSE LET webhook == Head(webhooks)
         IN  IF ~WebhookTable[webhook].renders_data
             THEN subscription_deliveries(s, event_type, Tail(webhooks))
             ELSE LET s1 == EventPayload_create(s, [kind |-> "subscription", webhook |-> webhook])
                      s2 == EventDelivery_create(s1, PENDING, event_type, Len(s1.payloads), webhook)
                  IN  subscription_deliveries(s2, event_type, Tail(webhooks))

create_deliveries_for_subscriptions(s, event_type, webhooks) ==
    IF event_type \notin WEBHOOK_TYPES_MAP THEN s
    ELSE subscription_deliveries(s, event_type, webhooks)

\* A task message: send_webhook_request_async.delay(event_delivery_id), or
\* the message self.retry sends.
Task(event_delivery_id, retries, countdown) ==
    [event_delivery_id |-> event_delivery_id, retries |-> retries, countdown |-> countdown]

\* Faulty variant: the task of the first delivery of the call is sent twice
\* and that of the last is not sent.
delay_calls_repeats_first(before, after) ==
    [i \in 1..(Len(after.deliveries) - Len(before.deliveries)) |->
        IF i = 1 THEN Len(before.deliveries) + 1 ELSE Len(before.deliveries) + i - 1]

\* Lines 205-206: the delivery ids send_webhook_request_async.delay is called
\* with, in order: the deliveries the call created, once each.
delay_calls(before, after) ==
    [i \in 1..(Len(after.deliveries) - Len(before.deliveries)) |->
        Len(before.deliveries) + i]

\* Faulty variant: a payload row of its own for every fixed-schema webhook.
RECURSIVE payload_per_webhook(_, _, _, _)
payload_per_webhook(s, data, webhooks, event_type) ==
    IF webhooks = <<>> THEN s
    ELSE LET sp == EventPayload_create(s, data)
         IN  payload_per_webhook(
                 EventDelivery_create(sp, PENDING, event_type, Len(sp.payloads), Head(webhooks)),
                 data, Tail(webhooks), event_type)

trigger_webhooks_async_payload_per_webhook(s, data, event_type, webhooks) ==
    LET groups == group_webhooks_by_subscription(webhooks)
        s1 == payload_per_webhook(s, data, groups[1], event_type)
        s2 == IF groups[2] # <<>>
              THEN create_deliveries_for_subscriptions(s1, event_type, groups[2])
              ELSE s1
    IN  [s |-> s2,
         tasks |-> {Task(d, 0, 0) : d \in (Len(s.deliveries) + 1)..Len(s2.deliveries)}]

\* Faulty variant: the payload row of an earlier call is reused when there is one.
trigger_webhooks_async_reuses_payload(s, data, event_type, webhooks) ==
    LET groups == group_webhooks_by_subscription(webhooks)
        regular_webhooks == groups[1]
        subscription_webhooks == groups[2]
        s1 == IF regular_webhooks # <<>>
              THEN LET sp == IF s.payloads = <<>> THEN EventPayload_create(s, data) ELSE s
                   IN  create_event_delivery_list_for_webhooks(
                           sp, regular_webhooks, Len(sp.payloads), event_type)
              ELSE s
        s2 == IF subscription_webhooks # <<>>
              THEN create_deliveries_for_subscriptions(s1, event_type, subscription_webhooks)
              ELSE s1
    IN  [s |-> s2,
         tasks |-> {Task(d, 0, 0) : d \in (Len(s.deliveries) + 1)..Len(s2.deliveries)}]

\* The store after lines 183-203, and the tasks of lines 205-206.
trigger_webhooks_async(s, data, event_type, webhooks) ==
    LET groups == group_webhooks_by_subscription(webhooks)
        regular_webhooks == groups[1]
        subscription_webhooks == groups[2]
        s1 == IF regular_webhooks # <<>>
              THEN LET sp == EventPayload_create(s, data)
                   IN  create_event_delivery_list_for_webhooks(
                           sp, regular_webhooks, Len(sp.payloads), event_type)
              ELSE s
        s2 == IF subscription_webhooks # <<>>
              THEN create_deliveries_for_subscriptions(s1, event_type, subscription_webhooks)
              ELSE s1
        ids == delay_calls(s, s2)
    IN  [s |-> s2, tasks |-> {Task(ids[i], 0, 0) : i \in DOMAIN ids}]

(***************************************************************************)
(* send_webhook_using_scheme_method: the transport the scheme selects, or  *)
(* "ValueError" for a scheme that is not in scheme_matrix.                 *)
(***************************************************************************)
\* Faulty variant: Pub/Sub targets are handed to the SQS sender.
scheme_matrix_pubsub_to_sqs(scheme) ==
    CASE scheme = HTTP -> "send_webhook_using_http"
      [] scheme = HTTPS -> "send_webhook_using_http"
      [] scheme = AWS_SQS -> "send_webhook_using_aws_sqs"
      [] scheme = GOOGLE_CLOUD_PUBSUB -> "send_webhook_using_aws_sqs"
      [] OTHER -> "ValueError"

\* Faulty variant: a scheme without a sender is handed to the HTTP sender.
scheme_matrix_defaults_to_http(scheme) ==
    CASE scheme = AWS_SQS -> "send_webhook_using_aws_sqs"
      [] scheme = GOOGLE_CLOUD_PUBSUB -> "send_webhook_using_google_cloud_pubsub"
      [] OTHER -> "send_webhook_using_http"

\* Lines 444-450
scheme_matrix(scheme) ==
    CASE scheme = HTTP -> "send_webhook_using_http"
      [] scheme = HTTPS -> "send_webhook_using_http"
      [] scheme = AWS_SQS -> "send_webhook_using_aws_sqs"
      [] scheme = GOOGLE_CLOUD_PUBSUB -> "send_webhook_using_google_cloud_pubsub"
      [] OTHER -> "ValueError"

\* Lines 438-459: sign the message, look the sender up, invoke it or raise.
send_webhook_using_scheme_method(s, delivery, scheme, secret, data) ==
    LET message == encode(data)
        signature == signature_for_payload(message, secret)
        send_method == scheme_matrix(scheme)
    IN  IF send_method = "ValueError"
        THEN [s |-> s, raised |-> TRUE]
        ELSE [s |-> transport_call(s, delivery, send_method, message, signature),
              raised |-> FALSE]

(***************************************************************************)
(* send_webhook_request_async, one execution.  task.retries is             *)
(* self.request.retries.                                                   *)
(***************************************************************************)
\* Faulty variant: the backoff multiplies by two instead of raising two to a power.
countdown_multiplies(retries) == retry_backoff * (2 * retries)

\* Line 514
countdown(retries) == retry_backoff * (2 ^ retries)

\* Faulty variant: one retry more than max_retries is let through.
retries_exceeded_late(retries) == retries > max_retries

\* Celery's Task.retry raises MaxRetriesExceededError when the retry about to
\* be scheduled would be beyond max_retries, and sends the retry otherwise.
retries_exceeded(retries) == retries + 1 > max_retries

AsyncResult(s, tasks, outcome, cause) ==
    [s |-> s, tasks |-> tasks, outcome |-> outcome, cause |-> cause]

\* Faulty variant: the ValueError is not caught and leaves the task.
async_value_error_propagates(s, delivery, attempt, cause) ==
    AsyncResult(s, {}, "raise", cause)

\* Faulty variant: the ValueError handler forgets to update the attempt.
async_value_error_keeps_attempt(s, delivery, attempt, cause) ==
    AsyncResult(
        report_event_delivery_attempt(
            delivery_update(s, delivery, FAILED), delivery, attempt, None),
        {}, "return", cause)

\* Faulty variant: the ValueError handler leaves the delivery as it was.
async_value_error_keeps_delivery(s, delivery, attempt, cause) ==
    LET response == WebhookResponse([from |-> None, body |-> "ValueError"], FAILED)
        s1 == attempt_update(s, delivery, attempt, response)
        s2 == report_event_delivery_attempt(s1, delivery, attempt, None)
    IN  AsyncResult(clear_successful_delivery(s2, delivery), {}, "return", cause)

\* Lines 538-543: the ValueError handler and the end of the function.
async_value_error(s, delivery, attempt, cause) ==
    LET response == WebhookResponse([from |-> None, body |-> "ValueError"], FAILED)
        s1 == attempt_update(s, delivery, attempt, response)
        s2 == delivery_update(s1, delivery, FAILED)
        s3 == report_event_delivery_attempt(s2, delivery, attempt, None)
    IN  AsyncResult(clear_successful_delivery(s3, delivery), {}, "return", cause)

\* Faulty variant: the status is written to every delivery of the payload.
async_finish_writes_payload_siblings(s, delivery, attempt, delivery_status) ==
    LET s1 == [s EXCEPT !.deliveries =
                  [e \in 1..Len(s.deliveries) |->
                      IF s.deliveries[e].payload = s.deliveries[delivery].payload
                      THEN [s.deliveries[e] EXCEPT !.status = delivery_status]
                      ELSE s.deliveries[e]],
                        !.writes[delivery] = Append(@, delivery_status)]
    IN  clear_successful_delivery(
            report_event_delivery_attempt(s1, delivery, attempt, None), delivery)

\* Lines 537-543 after a response: the status of the delivery is written, the
\* attempt reported and a successful delivery cleared.
async_finish(s, delivery, attempt, delivery_status) ==
    clear_successful_delivery(
        report_event_delivery_attempt(
            delivery_update(s, delivery, delivery_status), delivery, attempt, None),
        delivery)

\* Faulty variant: every failed attempt marks the delivery failed before the retry.
async_after_response_marks_each_failure(s, task, attempt, response) ==
    LET delivery == task.event_delivery_id
        s1 == attempt_update(s, delivery, attempt, response)
        s2 == delivery_update(s1, delivery, response.status)
    IN  IF response.status = FAILED /\ ~retries_exceeded(task.retries)
        THEN AsyncResult(
                 report_event_delivery_attempt(
                     s2, delivery, attempt, countdown(task.retries)),
                 {Task(delivery, task.retries + 1, countdown(task.retries))},
                 "retry", "response_failed")
        ELSE AsyncResult(
                 clear_successful_delivery(
                     report_event_delivery_attempt(s2, delivery, attempt, None),
                     delivery), {}, "return",
                 IF response.status = FAILED THEN "retries_exceeded" ELSE "response_success")

\* Faulty variant: delivery_status keeps its initial value when the retries
\* are exhausted.
async_after_response_exhausted_success(s, task, attempt, response) ==
    LET delivery == task.event_delivery_id
        s1 == attempt_update(s, delivery, attempt, response)
    IN  IF response.status = FAILED /\ ~retries_exceeded(task.retries)
        THEN AsyncResult(
                 report_event_delivery_attempt(
                     s1, delivery, attempt, countdown(task.retries)),
                 {Task(delivery, task.retries + 1, countdown(task.retries))},
                 "retry", "response_failed")
        ELSE AsyncResult(async_finish(s1, delivery, attempt, SUCCESS),
                 {}, "return",
                 IF response.status = FAILED THEN "retries_exceeded" ELSE "response_success")

\* Faulty variant: a successful delivery is not cleared.
async_after_response_keeps_payload(s, task, attempt, response) ==
    LET delivery == task.event_delivery_id
        s1 == attempt_update(s, delivery, attempt, response)
    IN  IF response.status = FAILED
        THEN IF retries_exceeded(task.retries)
             THEN AsyncResult(
                      report_event_delivery_attempt(
                          delivery_update(s1, delivery, FAILED), delivery, attempt, None),
                      {}, "return", "retries_exceeded")
             ELSE AsyncResult(
                      report_event_delivery_attempt(
                          s1, delivery, attempt, countdown(task.retries)),
                      {Task(delivery, task.retries + 1, countdown(task.retries))},
                      "retry", "response_failed")
        ELSE AsyncResult(
                 report_event_delivery_attempt(
                     delivery_update(s1, delivery, SUCCESS), delivery, attempt, None),
                 {}, "return", "response_success")

\* Faulty variant: the retry is scheduled without reporting the attempt.
async_after_response_retry_unreported(s, task, attempt, response) ==
    LET delivery == task.event_delivery_id
        s1 == attempt_update(s, delivery, attempt, response)
    IN  IF response.status = FAILED
        THEN IF retries_exceeded(task.retries)
             THEN AsyncResult(async_finish(s1, delivery, attempt, FAILED),
                              {}, "return", "retries_exceeded")
             ELSE AsyncResult(
                      s1, {Task(delivery, task.retries + 1, countdown(task.retries))},
                      "retry", "response_failed")
        ELSE AsyncResult(async_finish(s1, delivery, attempt, SUCCESS),
                         {}, "return", "response_success")

\* Lines 502-543: what follows the transport call's return.
async_after_response(s, task, attempt, response) ==
    LET delivery == task.event_delivery_id
        s1 == attempt_update(s, delivery, attempt, response)
    IN  IF response.status = FAILED
        THEN IF retries_exceeded(task.retries)
             THEN AsyncResult(async_finish(s1, delivery, attempt, FAILED),
                              {}, "return", "retries_exceeded")
             ELSE AsyncResult(
                      report_event_delivery_attempt(
                          s1, delivery, attempt, countdown(task.retries)),
                      {Task(delivery, task.retries + 1, countdown(task.retries))},
                      "retry", "response_failed")
        ELSE AsyncResult(async_finish(s1, delivery, attempt, SUCCESS),
                         {}, "return", "response_success")

\* Lines 495-501: an exception that is not a ValueError leaves the sender; no
\* handler of the task catches it, so the attempt stays as created.
transport_raised(s) ==
    AsyncResult(s, {}, "raise", "transport_exception")

\* Faulty variant: the disabled webhook is noticed after the attempt row was created.
webhook_disabled_after_attempt(s, delivery) ==
    LET s1 == create_attempt(s, delivery, delivery)
    IN  AsyncResult(delivery_update(s1, delivery, FAILED), {}, "return", "inactive")

\* Lines 477-480: the webhook is disabled.
webhook_disabled(s, delivery) ==
    AsyncResult(delivery_update(s, delivery, FAILED), {}, "return", "inactive")

\* Faulty variant: EventDelivery.DoesNotExist is not caught.
delivery_not_found_raises(s) ==
    AsyncResult(s, {}, "raise", "not_found")

\* Lines 473-475: the delivery row is gone; log and return.
delivery_not_found(s) ==
    AsyncResult(s, {}, "return", "not_found")

send_webhook_request_async(s, task, response) ==
    LET delivery == task.event_delivery_id
    IN  IF delivery \notin 1..Len(s.deliveries) \/ s.deliveries[delivery].deleted
        THEN delivery_not_found(s)
        ELSE IF s.deliveries[delivery].webhook \in inactive
        THEN webhook_disabled(s, delivery)
        ELSE LET webhook == s.deliveries[delivery].webhook
                 s1 == create_attempt(s, delivery, delivery)
                 attempt == Len(s1.attempts[delivery])
             IN  IF s1.deliveries[delivery].payload = None
                 THEN async_value_error(s1, delivery, attempt, "no_payload")
                 ELSE LET sent == send_webhook_using_scheme_method(
                                      s1, delivery, WebhookTable[webhook].scheme,
                                      WebhookTable[webhook].secret_key,
                                      s1.payloads[s1.deliveries[delivery].payload].payload)
                      IN  IF sent.raised
                          THEN async_value_error(s1, delivery, attempt, "unknown_scheme")
                          ELSE IF response.status = "raised"
                          THEN transport_raised(sent.s)
                          ELSE async_after_response(sent.s, task, attempt, response)

(***************************************************************************)
(* send_observability_events.  An event is a number, the batch the         *)
(* sequence <<1, .., n>>.                                                  *)
(***************************************************************************)
\* observability.dump_payload: the JSON text of one event or of a list.
dump_payload(data) == [json |-> data]

\* One call of send_webhook_using_scheme_method by send_observability_events.
ObsCall(webhook, data) ==
    LET message == encode(data)
    IN  [transport |-> scheme_matrix(WebhookTable[webhook].scheme),
         message |-> message,
         signature |-> signature_for_payload(message, WebhookTable[webhook].secret_key)]

ObsSent(calls_made, failed, outcome) ==
    [calls |-> calls_made, failed |-> failed, outcome |-> outcome]

\* Lines 630-639: the loop over the events; responses[i] is what the sender
\* does with the i-th call.  An exception of the sender leaves the loop.
RECURSIVE send_each_event(_, _, _, _, _, _)
send_each_event(webhook, events, responses, i, calls_made, failed) ==
    IF i > Len(events) THEN ObsSent(calls_made, failed, "sent")
    ELSE LET made == Append(calls_made, ObsCall(webhook, dump_payload(events[i])))
         IN  IF responses[i].status = "raised"
             THEN ObsSent(made, failed, "raised")
             ELSE send_each_event(webhook, events, responses, i + 1, made,
                                  IF responses[i].status = FAILED
                                  THEN failed + 1 ELSE failed)

\* Lines 640-649: one call with the whole batch.
send_batch(webhook, events, response) ==
    LET made == <<ObsCall(webhook, dump_payload(events))>>
    IN  IF response.status = "raised" THEN ObsSent(made, 0, "raised")
        ELSE ObsSent(made, IF response.status = FAILED THEN Len(events) ELSE 0, "sent")

\* Lines 620-674: the body of the loop for one webhook.
send_observability_events_to(webhook, events, responses) ==
    LET scheme == WebhookTable[webhook].scheme
    IN  IF scheme_matrix(scheme) = "ValueError"
        THEN ObsSent(<<>>, Len(events), "unknown_scheme")
        ELSE IF scheme \in {AWS_SQS, GOOGLE_CLOUD_PUBSUB}
        THEN send_each_event(webhook, events, responses, 1, <<>>, 0)
        ELSE send_batch(webhook, events, responses[1])

\* observability_send_events and observability_reporter_task call the
\* function with the webhooks of the app and a batch that is not empty.
ObsStart(webhooks, n) ==
    /\ obs.pc = "idle"
    /\ obs' = [ObsIdle EXCEPT !.pc = "loop", !.webhooks = webhooks,
                              !.events = [i \in 1..n |-> i]]
    /\ UNCHANGED <<inactive, payloads, deliveries, attempts, calls, writes, reports, queue,
                   ret, frame, duplicates, sqs, api, running, later>>

\* One iteration of "for webhook in webhooks".
ObsWebhook(responses) ==
    /\ obs.pc = "loop"
    /\ obs.w <= Len(obs.webhooks)
    /\ LET r == send_observability_events_to(obs.webhooks[obs.w], obs.events, responses)
       IN  obs' = [obs EXCEPT
                      !.sent = Append(@, r.calls),
                      !.dropped = Append(@, r.failed),
                      !.w = @ + 1,
                      !.pc = IF r.outcome = "raised" THEN "raised"
                             ELSE IF obs.w = Len(obs.webhooks) THEN "returned"
                             ELSE "loop"]
    /\ UNCHANGED <<inactive, payloads, deliveries, attempts, calls, writes, reports, queue,
                   ret, frame, duplicates, sqs, api, running, later>>

NextObs ==
    \/ /\ obs.pc = "idle"
       /\ \E n \in 1..MaxEvents :
             \E ws \in UNION {WebhookLists(Webhooks, k) : k \in 1..MaxObsHooks} :
                 ObsStart(ws, n)
    \/ /\ obs.pc = "loop"
       /\ \E responses \in [1..Len(obs.events) -> TransportResponses(obs.webhooks[obs.w])] :
              ObsWebhook(responses)

SpecObs == Init /\ [][NextObs]_vars

(***************************************************************************)
(* send_webhook_using_aws_sqs.  The host name of the target URL is the     *)
(* sequence of its labels (what hostname.split(".") returns); the path is  *)
(* the sequence of the pieces it is written from, so that                  *)
(* path.endswith(".fifo") is a test on its last piece.                     *)
(***************************************************************************)
HostLabels == {"sqs", "eu-west-1", "com"}

RECURSIVE HostNames(_)
HostNames(n) ==
    IF n = 0 THEN {<<>>}
    ELSE {Append(h, l) : h \in HostNames(n - 1), l \in HostLabels}

\* The host names urlparse can hand over: at least one label.
SqsHosts == UNION {HostNames(n) : n \in 1..MaxLabels}

SqsPaths == {<<"/1/queue">>, <<"/1/queue", ".fifo">>, <<"/1/queue", ".fifo", ".bak">>,
             <<"/1/", ".fifo", "/queue">>}

SaleorDomains == {"shop.example", "mirumee.example"}

\* Lines 360-363
sqs_region(hostname_parts) ==
    IF Len(hostname_parts) = 4 /\ hostname_parts[1] = "sqs"
    THEN hostname_parts[2]
    ELSE "us-east-1"

\* Line 382
is_fifo(path) == Len(path) > 0 /\ path[Len(path)] = ".fifo"

\* Lines 384-397: "if signature" leaves the attribute out for an empty signature.
msg_attributes(domain, signature, event_type) ==
    LET base == [SaleorDomain |-> domain, EventType |-> event_type]
    IN  IF signature # "" THEN base @@ [Signature |-> signature] ELSE base

\* Lines 399-405
message_kwargs(hostname_parts, path, message, domain, signature, event_type) ==
    LET base == [QueueUrl |-> [scheme |-> HTTPS, hostname |-> hostname_parts, path |-> path],
                 MessageAttributes |-> msg_attributes(domain, signature, event_type),
                 MessageBody |-> message]
    IN  IF is_fifo(path) THEN base @@ [MessageGroupId |-> domain] ELSE base

\* Lines 358-412: the client is built for the region and send_message is
\* called with the keyword arguments.
SqsSend(hostname_parts, path, message, domain, signature, event_type, outcome) ==
    /\ sqs.pc = "idle"
    /\ sqs' = [pc |-> "sent",
               hostname_parts |-> hostname_parts,
               path |-> path,
               domain |-> domain,
               region_name |-> sqs_region(hostname_parts),
               send_message |-> message_kwargs(hostname_parts, path, message, domain,
                                               signature, event_type),
               response |-> send_webhook_using_aws_sqs(None, outcome)]
    /\ UNCHANGED <<inactive, payloads, deliveries, attempts, calls, writes, reports, queue,
                   ret, frame, duplicates, obs, api, running, later>>

NextSqs ==
    /\ sqs.pc = "idle"
    /\ \E h \in SqsHosts, p \in SqsPaths, d \in SaleorDomains, sig \in {"", "signature"},
          e \in EventTypes, o \in SqsOutcomes :
           SqsSend(h, p, "message", d, sig, e, o)

SpecSqs == Init /\ [][NextSqs]_vars

(***************************************************************************)
(* The mutations that publish an event through the webhook plugin:         *)
(* customerDelete for one object, saleBulkDelete for a list of sales.      *)
(* The plugin's handler asks get_webhooks_for_event for the webhooks of    *)
(* the event type and hands the object's payload to                        *)
(* trigger_webhooks_async.                                                 *)
(***************************************************************************)
Requestors == {"staff", "app"}

Object(type, id) == [type |-> type, id |-> id]

\* generate_customer_payload(customer, requestor) and generate_sale_payload(
\* sale, catalogue, requestor): the text names the object and the requestor.
generate_payload(object, requestor) ==
    [kind |-> "data", webhook |-> None, object |-> object, requestor |-> requestor]

\* The arguments of one call of trigger_webhooks_async.
TriggerCall(data, event_type, webhooks, subscribable_object, requestor) ==
    [data |-> data, event_type |-> event_type, webhooks |-> webhooks,
     subscribable_object |-> subscribable_object, requestor |-> requestor]

\* WebhookPlugin.customer_deleted / sale_deleted for the object at api.i.
PluginEvent ==
    LET object == api.objects[api.i]
        data == generate_payload(object, api.requestor)
        r == trigger_webhooks_async(Store, data, api.event_type, api.webhooks)
    IN  /\ SetStore(r.s)
        /\ queue' = queue \cup r.tasks
        /\ delayed' = delayed \o delay_calls(Store, r.s)
        /\ api' = [api EXCEPT
                      !.calls = Append(@, TriggerCall(data, api.event_type, api.webhooks,
                                                      object, api.requestor)),
                      !.i = @ + 1,
                      !.pc = IF api.i = Len(api.objects) THEN "done" ELSE "events"]

\* The mutation deleted its objects and is about to publish the events;
\* webhooks is what get_webhooks_for_event returns for the event type.
MutationStart(op, event_type, objects, requestor, webhooks) ==
    /\ api.pc = "idle"
    /\ api' = [ApiIdle EXCEPT !.pc = "events", !.op = op, !.event_type = event_type,
                              !.objects = objects, !.requestor = requestor,
                              !.webhooks = webhooks]
    /\ UNCHANGED <<inactive, payloads, deliveries, attempts, calls, writes, reports, queue,
                   ret, frame, duplicates, obs, sqs, running, later>>

CustomerDelete(customer, requestor, webhooks) ==
    MutationStart("customerDelete", CUSTOMER_DELETED, <<Object("User", customer)>>,
                  requestor, webhooks)

SaleBulkDelete(ids, requestor, webhooks) ==
    MutationStart("saleBulkDelete", SALE_DELETED,
                  [i \in 1..Len(ids) |-> Object("Sale", ids[i])], requestor, webhooks)

\* The next deleted object's event is published.
MutationEvent ==
    /\ api.pc = "events"
    /\ PluginEvent
    /\ UNCHANGED <<inactive, ret, frame, duplicates, obs, sqs, running, reporter, payment>>

\* The lists of one to n distinct ids out of 1..n.
IdLists(n) == UNION {WebhookLists(1..n, k) : k \in 1..n}

NextApi ==
    \/ /\ api.pc = "idle"
       /\ \E c \in 1..MaxSales, r \in Requestors :
             \E ws \in UNION {WebhookLists(Webhooks, k) : k \in 1..MaxFanout} :
                 CustomerDelete(c, r, ws)
    \/ /\ api.pc = "idle"
       /\ \E ids \in IdLists(MaxSales), r \in Requestors :
             \E ws \in UNION {WebhookLists(Webhooks, k) : k \in 1..MaxFanout} :
                 SaleBulkDelete(ids, r, ws)
    \/ MutationEvent

SpecApi == Init /\ [][NextApi]_vars

(***************************************************************************)
(* Actions of Spec.                                                        *)
(***************************************************************************)
Ret(op, outcome, error, value, id, retries, cause, webhook, event_type) ==
    [op |-> op, outcome |-> outcome, error |-> error, value |-> value,
     id |-> id, retries |-> retries, cause |-> cause, webhook |-> webhook,
     event_type |-> event_type, webhooks |-> <<>>]

TriggerWebhooksAsync(event_type, webhooks) ==
    /\ ret.op = "none"
    /\ deliveries = <<>>
    /\ LET r == trigger_webhooks_async(Store, EventData, event_type, webhooks)
       IN  /\ SetStore(r.s)
           /\ queue' = queue \cup r.tasks
           /\ delayed' = delayed \o delay_calls(Store, r.s)
    /\ ret' = [Ret("trigger_webhooks_async", "return", "", NoData, None, 0, "none",
                      None, event_type) EXCEPT !.webhooks = webhooks]
    /\ UNCHANGED <<inactive, frame, duplicates, obs, sqs, api, running, reporter, payment>>

\* The task queue runs one waiting execution.
RunTask(task, response) ==
    /\ task \in queue
    /\ LET r == send_webhook_request_async(Store, task, response)
       IN  /\ SetStore(r.s)
           /\ queue' = (queue \ {task}) \cup r.tasks
           /\ ret' = Ret("send_webhook_request_async", r.outcome, "", NoData,
                         task.event_delivery_id, task.retries, r.cause, None, "none")
    /\ UNCHANGED <<inactive, frame, extra>>

\* The broker hands out a task message that it will deliver once more (the
\* worker's acknowledgement is lost): the execution runs and the message
\* stays in the queue.
RunTaskRedelivered(task, response) ==
    /\ task \in queue
    /\ duplicates < MaxDuplicates
    /\ LET r == send_webhook_request_async(Store, task, response)
       IN  /\ SetStore(r.s)
           /\ queue' = queue \cup r.tasks
           /\ ret' = Ret("send_webhook_request_async", r.outcome, "", NoData,
                         task.event_delivery_id, task.retries, r.cause, None, "none")
    /\ duplicates' = duplicates + 1
    /\ UNCHANGED <<inactive, frame, side>>

TriggerWebhookSync(event_type, webhook, http_response) ==
    /\ ret.op = "none"
    /\ frame.pc = "idle"
    /\ deliveries = <<>>
    /\ LET r == trigger_webhook_sync(Store, event_type, webhook, http_response)
       IN  /\ SetStore(r.s)
           /\ ret' = Ret("trigger_webhook_sync", r.outcome, r.error, r.value,
                         None, 0, "none", webhook, event_type)
    /\ UNCHANGED <<inactive, queue, frame, extra>>

\* An operator sets is_active = False on a webhook that has a waiting task.
DeactivateWebhook(webhook) ==
    /\ webhook \notin inactive
    /\ \E task \in queue :
          /\ deliveries[task.event_delivery_id].webhook = webhook
          /\ ~deliveries[task.event_delivery_id].deleted
    /\ inactive' = inactive \cup {webhook}
    /\ UNCHANGED <<payloads, deliveries, attempts, calls, writes, reports, queue, ret, frame, extra>>

\* The payload of a delivery with a waiting task is deleted; the foreign keys
\* of the deliveries that referenced it become null.
PurgePayload(payload) ==
    /\ payload \in 1..Len(payloads)
    /\ ~payloads[payload].deleted
    /\ \E task \in queue :
          /\ deliveries[task.event_delivery_id].payload = payload
          /\ ~deliveries[task.event_delivery_id].deleted
    /\ payloads' = [payloads EXCEPT ![payload].deleted = TRUE]
    /\ deliveries' = [d \in 1..Len(deliveries) |->
                        IF deliveries[d].payload = payload
                        THEN [deliveries[d] EXCEPT !.payload = None]
                        ELSE deliveries[d]]
    /\ UNCHANGED <<inactive, attempts, calls, writes, reports, queue, ret, frame, extra>>

\* The delivery row of a waiting task is deleted (manual purge).  The row
\* stays in the sequence with deleted = TRUE, so that ids are not reused and
\* the history of its attempts can still be read by the properties.
DeleteDelivery(delivery) ==
    /\ delivery \in 1..Len(deliveries)
    /\ ~deliveries[delivery].deleted
    /\ \E task \in queue : task.event_delivery_id = delivery
    /\ deliveries' = [deliveries EXCEPT ![delivery].deleted = TRUE]
    /\ UNCHANGED <<inactive, payloads, attempts, calls, writes, reports, queue, ret, frame, extra>>

Next ==
    \/ /\ ret.op = "none"
       /\ \E e \in EventTypes, ws \in ActiveWebhookLists(MaxFanout) : TriggerWebhooksAsync(e, ws)
    \/ \E task \in queue :
          \E response \in TransportResponses(deliveries[task.event_delivery_id].webhook) :
              RunTask(task, response)
    \/ \E e \in EventTypes, w \in Webhooks \cup {None}, body \in Bodies, st \in {SUCCESS, FAILED} :
          TriggerWebhookSync(e, w, WebhookResponse([from |-> w, body |-> body], st))
    \/ \E w \in Webhooks : DeactivateWebhook(w)
    \/ \E p \in 1..Len(payloads) : PurgePayload(p)
    \/ \E d \in 1..Len(deliveries) : DeleteDelivery(d)

Spec == Init /\ [][Next]_vars

NextSync ==
    \/ /\ frame.pc = "idle"
       /\ \E e \in EventTypes, ws \in get_webhooks_for_event : TriggerAllStart(e, ws)
    \/ \E body \in Bodies, st \in {SUCCESS, FAILED} :
          TriggerAllIter(WebhookResponse([from |-> frame.webhooks[frame.i], body |-> body], st))
    \/ TriggerAllExhausted
    \/ \E e \in EventTypes, w \in Webhooks \cup {None}, body \in Bodies, st \in {SUCCESS, FAILED} :
          TriggerWebhookSync(e, w, WebhookResponse([from |-> w, body |-> body], st))

SpecSync == Init /\ [][NextSync]_vars

(***************************************************************************)
(* One fan-out of trigger_webhooks_async over every list                   *)
(* get_webhooks_for_event may return.                                      *)
(***************************************************************************)
NextFanout ==
    /\ ret.op = "none"
    /\ \E e \in EventTypes, ws \in get_webhooks_for_event : TriggerWebhooksAsync(e, ws)

SpecFanout == Init /\ [][NextFanout]_vars

(***************************************************************************)
(* The retry chain of one delivery on a broker that may deliver a task     *)
(* message twice.                                                          *)
(***************************************************************************)
NextDup ==
    \/ /\ ret.op = "none"
       /\ \E e \in EventTypes, w \in Webhooks : TriggerWebhooksAsync(e, <<w>>)
    \/ \E task \in queue :
          \E response \in TransportResponses(deliveries[task.event_delivery_id].webhook) :
              RunTask(task, response)
    \/ \E task \in queue :
          \E response \in TransportResponses(deliveries[task.event_delivery_id].webhook) :
              RunTaskRedelivered(task, response)

SpecDup == Init /\ [][NextDup]_vars

(***************************************************************************)
(* One event fanned out to several webhooks, and the retry chains of its   *)
(* deliveries in every interleaving.  The order of the webhooks in the     *)
(* list only numbers the deliveries, so the lists are taken ascending.     *)
(***************************************************************************)
MaxShared == 2

Ascending(ws) == \A i \in 1..(Len(ws) - 1) : ws[i] < ws[i + 1]

SharedLists == {ws \in ActiveWebhookLists(MaxShared) : Ascending(ws)}

NextShared ==
    \/ /\ ret.op = "none"
       /\ \E e \in EventTypes, ws \in SharedLists : TriggerWebhooksAsync(e, ws)
    \/ \E task \in queue :
          \E response \in TransportResponses(deliveries[task.event_delivery_id].webhook) :
              RunTask(task, response)

SpecShared == Init /\ [][NextShared]_vars

(***************************************************************************)
(* observability_reporter_task and observability_send_events.  The buffer  *)
(* is the sequence of the events waiting in it, oldest first; an event is  *)
(* a number.                                                               *)
(***************************************************************************)
MaxBuffered == 5

\* settings.OBSERVABILITY_BUFFER_BATCH_SIZE
batch_size == 2

Min(a, b) == IF a < b THEN a ELSE b

\* The number of batches n events make: ceil(n / batch_size).
in_batches(n) == (n + batch_size - 1) \div batch_size

\* observability.pop_events_with_remaining_size: the oldest events, a batch
\* at most, are taken out; the second value is the number of batches left.
pop_events_with_remaining_size(buffer) ==
    LET n == Min(Len(buffer), batch_size)
    IN  [events |-> SubSeq(buffer, 1, n),
         buffer |-> SubSeq(buffer, n + 1, Len(buffer)),
         batch_count |-> in_batches(Len(buffer) - n)]

\* What one execution of a task did: the buffer it left, the sender tasks it
\* enqueued and its calls of send_observability_events.
Flushed(op, webhooks, buffer_before, buffer, popped, batch_count, enqueued, sends) ==
    [buffer |-> buffer, enqueued |-> enqueued,
     last |-> [op |-> op, webhooks |-> webhooks, buffer_before |-> buffer_before,
               buffer_after |-> buffer, popped |-> popped, batch_count |-> batch_count, enqueued |-> enqueued,
               sends |-> sends]]

\* One call send_observability_events(webhooks, events).
ObsSend(webhooks, events) == [webhooks |-> webhooks, events |-> events]

\* Lines 677-685.
observability_send_events(webhooks, buffer) ==
    IF webhooks = <<>>
    THEN Flushed("observability_send_events", webhooks, buffer, buffer, <<>>, 0, 0, <<>>)
    ELSE LET p == pop_events_with_remaining_size(buffer)
         IN  Flushed("observability_send_events", webhooks, buffer, p.buffer, p.events,
                     p.batch_count, 0,
                     IF p.events # <<>> THEN <<ObsSend(webhooks, p.events)>> ELSE <<>>)

\* Faulty variant: the reporter sends a batch only when it enqueued sender
\* tasks, and enqueues one task too many.
observability_reporter_task_sends_with_tasks(webhooks, buffer) ==
    IF webhooks = <<>>
    THEN Flushed("observability_reporter_task", webhooks, buffer, buffer, <<>>, 0, 0, <<>>)
    ELSE LET p == pop_events_with_remaining_size(buffer)
         IN  Flushed("observability_reporter_task", webhooks, buffer, p.buffer, p.events,
                     p.batch_count,
                     IF p.batch_count > 0 THEN p.batch_count + 1 ELSE 0,
                     IF p.events # <<>> /\ p.batch_count > 0
                     THEN <<ObsSend(webhooks, p.events)>> ELSE <<>>)

\* Lines 688-700.
observability_reporter_task(webhooks, buffer) ==
    IF webhooks = <<>>
    THEN Flushed("observability_reporter_task", webhooks, buffer, buffer, <<>>, 0, 0, <<>>)
    ELSE LET p == pop_events_with_remaining_size(buffer)
         IN  Flushed("observability_reporter_task", webhooks, buffer, p.buffer, p.events,
                     p.batch_count,
                     IF p.batch_count > 0 THEN p.batch_count ELSE 0,
                     IF p.events # <<>> THEN <<ObsSend(webhooks, p.events)>> ELSE <<>>)

ReporterUnchanged ==
    UNCHANGED <<inactive, payloads, deliveries, attempts, calls, writes, reports, queue,
                ret, frame, duplicates, obs, sqs, api, running, delayed, payment>>

\* observability.get_webhooks: the webhooks subscribed to the observability
\* event are registered before the tasks run.
SetObsWebhooks(webhooks) ==
    /\ ~reporter.configured
    /\ reporter' = [reporter EXCEPT !.webhooks = webhooks, !.configured = TRUE]
    /\ ReporterUnchanged

\* The application puts a diagnostic event into the buffer.
BufferPut ==
    /\ reporter.configured
    /\ reporter.produced < MaxBuffered
    /\ reporter' = [reporter EXCEPT !.produced = @ + 1,
                                    !.buffer = Append(@, reporter.produced + 1)]
    /\ ReporterUnchanged

\* The periodic task runs.
ObservabilityReporterTask ==
    /\ reporter.configured
    /\ LET r == observability_reporter_task(reporter.webhooks, reporter.buffer)
       IN  reporter' = [reporter EXCEPT !.buffer = r.buffer,
                                        !.tasks = @ + r.enqueued,
                                        !.last = r.last]
    /\ ReporterUnchanged

\* A worker runs one of the enqueued sender tasks.
ObservabilitySendEvents ==
    /\ reporter.tasks > 0
    /\ LET r == observability_send_events(reporter.webhooks, reporter.buffer)
       IN  reporter' = [reporter EXCEPT !.buffer = r.buffer,
                                        !.tasks = @ - 1 + r.enqueued,
                                        !.last = r.last]
    /\ ReporterUnchanged

NextReporter ==
    \/ /\ ~reporter.configured
       /\ \E ws \in {l \in UNION {WebhookLists(Webhooks, k) : k \in 0..MaxObsHooks} :
                         Ascending(l)} :
             SetObsWebhooks(ws)
    \/ BufferPut
    \/ ObservabilityReporterTask
    \/ ObservabilitySendEvents

SpecReporter == Init /\ [][NextReporter]_vars

(***************************************************************************)
(* try_payment_action around a payment call that asks a payment app        *)
(* through trigger_webhook_sync.                                           *)
(***************************************************************************)
MaxPaymentActions == 2

PaymentResult(order, outcome, error, code, value) ==
    [order |-> order, outcome |-> outcome, error |-> error, code |-> code, value |-> value]

\* events.payment_failed_event(order, user, app, message, payment)
payment_failed_event(order, message) ==
    [order EXCEPT !.events = Append(@, [type |-> "payment_failed", message |-> message])]

\* order.refresh_from_db()
refresh_from_db(order) == [order EXCEPT !.refreshed = @ + 1]

\* Faulty variant: only PaymentError is translated.
try_payment_action_lets_value_error_through(order, func) ==
    IF func.outcome = "raise"
    THEN IF func.error = "PaymentError"
         THEN PaymentResult(payment_failed_event(order, func.error), "raise",
                            "ValidationError", "PAYMENT_ERROR", NoData)
         ELSE PaymentResult(order, "raise", func.error, "", NoData)
    ELSE PaymentResult(refresh_from_db(order), "return", "", "", func.value)

\* Lines 58-75; func is how the call func(*args, **kwargs) ended.
try_payment_action(order, func) ==
    IF func.outcome = "raise"
    THEN IF func.error \in {"PaymentError", "ValueError"}
         THEN PaymentResult(payment_failed_event(order, func.error), "raise",
                            "ValidationError", "PAYMENT_ERROR", NoData)
         ELSE PaymentResult(order, "raise", func.error, "", NoData)
    ELSE PaymentResult(refresh_from_db(order), "return", "", "", func.value)

\* A mutation calls try_payment_action with a payment call that goes to the
\* payment app of the webhook.
TryPaymentAction(event_type, webhook, http_response) ==
    /\ payment.actions < MaxPaymentActions
    /\ frame.pc = "idle"
    /\ LET func == trigger_webhook_sync(Store, event_type, webhook, http_response)
           r == try_payment_action(payment.order, func)
       IN  /\ SetStore(func.s)
           /\ payment' = [order |-> r.order, actions |-> payment.actions + 1,
                          func |-> [outcome |-> func.outcome, error |-> func.error,
                                    value |-> func.value],
                          before |-> payment.order, outcome |-> r.outcome,
                          error |-> r.error, code |-> r.code, value |-> r.value]
    /\ UNCHANGED <<inactive, queue, ret, frame, duplicates, obs, sqs, api, running,
                   delayed, reporter>>

NextPayment ==
    \E e \in EventTypes, w \in Webhooks \cup {None}, body \in Bodies, st \in {SUCCESS, FAILED} :
        TryPaymentAction(e, w, WebhookResponse([from |-> w, body |-> body], st))

SpecPayment == Init /\ [][NextPayment]_vars

(***************************************************************************)
(* One invocation of trigger_all_webhooks_sync, statement by statement.    *)
(***************************************************************************)
NextSteps ==
    \/ /\ frame.pc = "idle"
       /\ \E e \in EventTypes, ws \in get_webhooks_for_event : TriggerAllStart(e, ws)
    \/ StepCreate
    \/ StepPost
    \/ \E body \in Bodies, st \in {SUCCESS, FAILED} :
          StepAnswer(WebhookResponse([from |-> frame.webhooks[frame.i], body |-> body], st))
    \/ TriggerAllExhausted

SpecSteps == Init /\ [][NextSteps]_vars

(***************************************************************************)
(* send_webhook_request_async and the synchronous loop followed through    *)
(* the transport call: an execution begins (lines 469-501, up to the call  *)
(* of the sender), the call is open, and the execution ends with the       *)
(* response (lines 502-543) or is interrupted (the worker is killed).      *)
(***************************************************************************)
\* The execution ends before any sender is called: the delivery is gone,
\* the webhook disabled, the payload missing or the scheme unknown.
EndsBeforeCall(s, delivery) ==
    \/ delivery \notin 1..Len(s.deliveries)
    \/ s.deliveries[delivery].deleted
    \/ s.deliveries[delivery].webhook \in inactive
    \/ s.deliveries[delivery].payload = None
    \/ scheme_matrix(WebhookTable[s.deliveries[delivery].webhook].scheme) = "ValueError"

Begun(s, attempt) == [s |-> s, attempt |-> attempt]

\* Faulty variant: the attempt is recorded as failed before the sender is called.
async_begin_updates_before_call(s, task) ==
    LET delivery == task.event_delivery_id
        webhook == s.deliveries[delivery].webhook
        s1 == create_attempt(s, delivery, delivery)
        attempt == Len(s1.attempts[delivery])
        s2 == attempt_update(s1, delivery, attempt,
                             WebhookResponse([from |-> None, body |-> ""], FAILED))
        sent == send_webhook_using_scheme_method(
                    s2, delivery, WebhookTable[webhook].scheme,
                    WebhookTable[webhook].secret_key,
                    s2.payloads[s2.deliveries[delivery].payload].payload)
    IN  Begun(sent.s, attempt)

\* Lines 484-501 for an execution that reaches the sender: the attempt row,
\* then the call.
async_begin(s, task) ==
    LET delivery == task.event_delivery_id
        webhook == s.deliveries[delivery].webhook
        s1 == create_attempt(s, delivery, delivery)
        attempt == Len(s1.attempts[delivery])
        sent == send_webhook_using_scheme_method(
                    s1, delivery, WebhookTable[webhook].scheme,
                    WebhookTable[webhook].secret_key,
                    s1.payloads[s1.deliveries[delivery].payload].payload)
    IN  Begun(sent.s, attempt)

\* Lines 495-543 once the sender has returned or raised.
async_end(s, task, attempt, response) ==
    IF response.status = "raised"
    THEN transport_raised(s)
    ELSE async_after_response(s, task, attempt, response)

\* The task queue hands the task to a worker.
AsyncBegin(task) ==
    /\ task \in queue
    /\ running.pc = "idle"
    /\ IF EndsBeforeCall(Store, task.event_delivery_id)
       THEN LET r == send_webhook_request_async(
                         Store, task, Sent(deliveries[task.event_delivery_id].webhook))
            IN  /\ SetStore(r.s)
                /\ queue' = (queue \ {task}) \cup r.tasks
                /\ ret' = Ret("send_webhook_request_async", r.outcome, "", NoData,
                              task.event_delivery_id, task.retries, r.cause, None, "none")
                /\ UNCHANGED running
       ELSE LET b == async_begin(Store, task)
            IN  /\ SetStore(b.s)
                /\ queue' = queue \ {task}
                /\ running' = [pc |-> "in_flight", task |-> task, attempt |-> b.attempt]
                /\ UNCHANGED ret
    /\ UNCHANGED <<inactive, frame, duplicates, obs, sqs, api, later>>

\* The sender returns or raises and the execution runs to its end.
AsyncEnd(response) ==
    /\ running.pc = "in_flight"
    /\ LET r == async_end(Store, running.task, running.attempt, response)
       IN  /\ SetStore(r.s)
           /\ queue' = queue \cup r.tasks
           /\ ret' = Ret("send_webhook_request_async", r.outcome, "", NoData,
                         running.task.event_delivery_id, running.task.retries,
                         r.cause, None, "none")
    /\ running' = NotRunning
    /\ UNCHANGED <<inactive, frame, duplicates, obs, sqs, api, later>>

\* The worker is killed while the sender waits for the network; the task
\* message was acknowledged when the execution began.
AsyncInterrupted ==
    /\ running.pc = "in_flight"
    /\ running' = [running EXCEPT !.pc = "interrupted"]
    /\ ret' = Ret("send_webhook_request_async", "interrupted", "", NoData,
                  running.task.event_delivery_id, running.task.retries,
                  "interrupted", None, "none")
    /\ UNCHANGED <<inactive, payloads, deliveries, attempts, calls, writes, reports, queue,
                   frame, duplicates, obs, sqs, api, later>>

\* The process serving the request is killed during requests.post.
SyncInterrupted ==
    /\ frame.pc = "in_flight"
    /\ frame' = [frame EXCEPT !.pc = "interrupted"]
    /\ UNCHANGED <<inactive, payloads, deliveries, attempts, calls, writes, reports, queue,
                   ret, extra>>

NextInFlight ==
    \/ /\ ret.op = "none"
       /\ frame.pc = "idle"
       /\ \E e \in EventTypes, w \in Webhooks : TriggerWebhooksAsync(e, <<w>>)
    \/ \E task \in queue : AsyncBegin(task)
    \/ /\ running.pc = "in_flight"
       /\ \E response \in TransportResponses(
                              deliveries[running.task.event_delivery_id].webhook) :
             AsyncEnd(response)
    \/ AsyncInterrupted
    \/ /\ frame.pc = "idle"
       /\ \E e \in EventTypes, ws \in get_webhooks_for_event : TriggerAllStart(e, ws)
    \/ StepCreate
    \/ StepPost
    \/ /\ frame.pc = "in_flight"
       /\ \E body \in Bodies, st \in {SUCCESS, FAILED} :
             StepAnswer(WebhookResponse([from |-> frame.webhooks[frame.i], body |-> body], st))
    \/ TriggerAllExhausted
    \/ SyncInterrupted

SpecInFlight == Init /\ [][NextInFlight]_vars

(***************************************************************************)
(* Properties.                                                             *)
(***************************************************************************)
DeliveryIds == 1..Len(deliveries)

LastAttempt(d) == attempts[d][Len(attempts[d])]

\* The delivery's transport call was answered with a response that
\* send_webhook_request_sync recorded as success and parse_response accepts.
Accepted(d) ==
    /\ Len(attempts[d]) > 0
    /\ LastAttempt(d).status = SUCCESS
    /\ parse_response(LastAttempt(d).response) # None

\* The webhook at position k of the running invocation was called once and
\* its response was not accepted.
RejectedAt(k) ==
    \E d \in DeliveryIds :
        /\ deliveries[d].webhook = frame.webhooks[k]
        /\ Len(calls[d]) = 1
        /\ Len(attempts[d]) = 1
        /\ ~Accepted(d)

\* Nothing was created or sent for the webhook at position k.
UntouchedAt(k) ==
    \A d \in DeliveryIds : deliveries[d].webhook # frame.webhooks[k]

(* C1: in trigger_all_webhooks_sync, once the response of the webhook at     *)
(* position i is accepted by parse_response, the function has returned that  *)
(* webhook's parsed result and no webhook at a later position has a          *)
(* delivery, an attempt or a transport call.                                 *)
C1_ShortCircuit ==
    frame.pc # "idle" =>
        \A d \in DeliveryIds :
            Accepted(d) =>
                /\ frame.pc = "returned"
                /\ frame.result = parse_response(LastAttempt(d).response)
                /\ frame.i <= Len(frame.webhooks)
                /\ deliveries[d].webhook = frame.webhooks[frame.i]
                /\ d = Len(deliveries)
                /\ \A j \in (frame.i + 1)..Len(frame.webhooks) : UntouchedAt(j)

\* Three webhooks, the first one answered acceptably.
C1_Witness ==
    /\ frame.pc = "returned"
    /\ Len(frame.webhooks) = 3
    /\ frame.i = 1
    /\ frame.result = frame.webhooks[1]
    /\ Accepted(1)

C2_WitnessNone ==
    /\ frame.pc = "returned"
    /\ Len(frame.webhooks) = 3
    /\ frame.i = 4
    /\ frame.result = None

(* C3: in trigger_all_webhooks_sync, a webhook whose subscription rendering  *)
(* yields empty data does not make the invocation end with an error: the     *)
(* loop goes on with the next webhook.                                       *)
C3_RenderFailureSkipped ==
    \A k \in 1..Len(frame.webhooks) :
        (/\ frame.pc # "idle"
         /\ frame.i = k
         /\ frame.event_type \in WEBHOOK_TYPES_MAP
         /\ WebhookTable[frame.webhooks[k]].subscription_query
         /\ ~WebhookTable[frame.webhooks[k]].renders_data)
        => frame.pc = "loop"

\* A subscription-mode webhook whose rendering yields empty data.
EmptyRender(webhook) ==
    /\ webhook # None
    /\ WebhookTable[webhook].subscription_query
    /\ ~WebhookTable[webhook].renders_data

(* C4: trigger_webhook_sync with a subscription-mode webhook whose rendering *)
(* yields empty data raises PaymentError, and no payload, delivery or        *)
(* attempt row exists and no transport call was made.                        *)
C4_SingleRenderFailureRaises ==
    (/\ ret.op = "trigger_webhook_sync"
     /\ EmptyRender(ret.webhook)
     /\ ret.event_type \in WEBHOOK_TYPES_MAP)
    => /\ ret.outcome = "raise"
       /\ ret.error = "PaymentError"
       /\ Store = EmptyStore

C4_Witness ==
    /\ ret.op = "trigger_webhook_sync"
    /\ EmptyRender(ret.webhook)
    /\ ret.event_type \in WEBHOOK_TYPES_MAP
    /\ ret.outcome = "raise"

(* C5: trigger_webhook_sync without a webhook raises an error and leaves the *)
(* store as it was: no row is created and no transport call is made.         *)
C5_NoWebhookRaises ==
    (ret.op = "trigger_webhook_sync" /\ ret.webhook = None)
    => /\ ret.outcome = "raise"
       /\ ret.error = "PaymentError"
       /\ Store = EmptyStore

C5_Witness ==
    /\ ret.op = "trigger_webhook_sync"
    /\ ret.webhook = None
    /\ ret.outcome = "raise"

(* C6: the status values written to a delivery, over its whole retry chain  *)
(* and over send_webhook_request_sync, are pending followed by at most one   *)
(* of success or failed, and the delivery's status is the last value         *)
(* written: a terminal status is never replaced.                             *)
C6_StatusMonotonic ==
    \A d \in DeliveryIds :
        /\ writes[d] \in {<<PENDING>>, <<PENDING, SUCCESS>>, <<PENDING, FAILED>>}
        /\ deliveries[d].status = writes[d][Len(writes[d])]

\* A delivery that failed five times and then succeeded on the last retry.
C6_Witness ==
    \E d \in DeliveryIds :
        /\ writes[d] = <<PENDING, SUCCESS>>
        /\ Len(attempts[d]) = max_retries + 1

(* C7 as claimed: in every reachable state a delivery has as many attempt    *)
(* rows as transport calls were made for it.                                 *)
C7_AttemptsEqualCalls ==
    \A d \in DeliveryIds : Len(attempts[d]) = Len(calls[d])

\* Attempt rows of the delivery that record a ValueError raised before the
\* transport call (missing payload, unknown scheme).
ValueErrorAttempts(d) ==
    {i \in 1..Len(attempts[d]) : attempts[d][i].response.body = "ValueError"}

(* C7 amended: a delivery has one attempt row per transport call made for    *)
(* it and one, recorded as failed, per execution that raised ValueError      *)
(* before the transport call; rows are only added, and a row of an earlier   *)
(* execution is never deleted or changed.                                    *)
C7_AttemptsAppendOnly ==
    /\ [](\A d \in DeliveryIds :
            /\ Len(attempts[d]) = Len(calls[d]) + Cardinality(ValueErrorAttempts(d))
            /\ \A i \in ValueErrorAttempts(d) : attempts[d][i].status = FAILED)
    /\ [][\A d \in DeliveryIds :
            /\ Len(attempts'[d]) >= Len(attempts[d])
            /\ Len(calls'[d]) >= Len(calls[d])
            /\ \A i \in 1..Len(attempts[d]) : attempts'[d][i] = attempts[d][i]]_vars

\* A retry chain with transport calls that ended on a missing payload.
C7_Witness ==
    \E d \in DeliveryIds :
        /\ Len(calls[d]) >= 2
        /\ Len(attempts[d]) = Len(calls[d]) + 1

AllAttemptsFailedInTransport(d) ==
    \A i \in 1..Len(attempts[d]) :
        attempts[d][i].status = FAILED /\ attempts[d][i].response.body = "error"

(* C8: with max_retries = 5 and retry_backoff = 10, the N-th retry of a      *)
(* delivery whose attempts all fail is scheduled with countdown 10 * 2^(N-1) *)
(* and the delivery is marked failed only by the execution that makes the    *)
(* 6th attempt.                                                              *)
C8_BackoffSchedule ==
    /\ \A task \in queue :
          /\ task.retries \in 0..5
          /\ task.retries >= 1 => task.countdown = 10 * (2 ^ (task.retries - 1))
    /\ \A d \in DeliveryIds :
          (/\ deliveries[d].webhook \notin inactive
           /\ ~deliveries[d].deleted
           /\ Len(attempts[d]) >= 1
           /\ Len(calls[d]) = Len(attempts[d])
           /\ AllAttemptsFailedInTransport(d))
          => IF Len(attempts[d]) = 6
             THEN deliveries[d].status = FAILED /\ \A task \in queue : task.event_delivery_id # d
             ELSE /\ deliveries[d].status = PENDING
                  /\ Len(attempts[d]) < 6
                  /\ Task(d, Len(attempts[d]), 10 * (2 ^ (Len(attempts[d]) - 1))) \in queue

\* The fifth retry is waiting with a countdown of 160 seconds.
C8_Witness ==
    \E task \in queue :
        /\ task.retries = 5
        /\ task.countdown = 160
        /\ Len(attempts[task.event_delivery_id]) = 5
        /\ AllAttemptsFailedInTransport(task.event_delivery_id)

TasksOf(q, d) == {task \in q : task.event_delivery_id = d}

(* C9: an execution of send_webhook_request_async for a delivery with an     *)
(* active webhook and a payload whose transport call gets a success response *)
(* adds one attempt recorded as success, sets the delivery to success,       *)
(* detaches the payload and schedules no retry.                              *)
C9_SuccessClears ==
    [][\A task \in queue :
        LET d == task.event_delivery_id
        IN  (/\ deliveries[d].webhook \notin inactive
             /\ deliveries[d].payload # None
             /\ RunTask(task, WebhookResponse(
                    [from |-> deliveries[d].webhook, body |-> "ok"], SUCCESS))
             /\ Len(calls'[d]) = Len(calls[d]) + 1)
            => /\ Len(attempts'[d]) = Len(attempts[d]) + 1
               /\ attempts'[d][Len(attempts'[d])].status = SUCCESS
               /\ deliveries'[d].status = SUCCESS
               /\ deliveries'[d].payload = None
               /\ TasksOf(queue', d) = {}
               /\ ret'.outcome = "return"]_vars

\* A retry succeeded and the delivery was cleared.
C9_Witness ==
    /\ ret.op = "send_webhook_request_async"
    /\ ret.cause = "response_success"
    /\ ret.retries >= 1
    /\ deliveries[ret.id].status = SUCCESS
    /\ deliveries[ret.id].payload = None

(* C10: an execution of send_webhook_request_async for an existing delivery  *)
(* whose webhook is inactive, on the first run or on a retry, sets the delivery to *)
(* failed, creates no attempt, makes no transport call and schedules no      *)
(* retry.                                                                    *)
C10_InactiveWebhookFails ==
    [][\A task \in queue :
        LET d == task.event_delivery_id
        IN  \A response \in TransportResponses(deliveries[d].webhook) :
            (/\ deliveries[d].webhook \in inactive
             /\ ~deliveries[d].deleted
             /\ RunTask(task, response))
            => /\ deliveries'[d].status = FAILED
               /\ attempts'[d] = attempts[d]
               /\ calls'[d] = calls[d]
               /\ TasksOf(queue', d) = {}
               /\ ret'.outcome = "return"]_vars

\* The webhook was deactivated between a failed attempt and its retry.
C10_Witness ==
    /\ ret.op = "send_webhook_request_async"
    /\ ret.cause = "inactive"
    /\ ret.retries >= 1
    /\ deliveries[ret.id].webhook \in inactive
    /\ deliveries[ret.id].status = FAILED
    /\ Len(attempts[ret.id]) = ret.retries

(* C11: an execution of send_webhook_request_async, first run or retry, for  *)
(* a delivery id whose row is gone returns without raising, leaves every     *)
(* payload, delivery and attempt row as it was, makes no transport call and  *)
(* schedules no retry.                                                       *)
C11_MissingDeliveryIsNoop ==
    [][\A task \in queue :
        LET d == task.event_delivery_id
        IN  \A response \in TransportResponses(deliveries[d].webhook) :
            (deliveries[d].deleted /\ RunTask(task, response))
            => /\ ret'.outcome = "return"
               /\ UNCHANGED <<payloads, deliveries, attempts, calls, writes, reports>>
               /\ TasksOf(queue', d) = {}]_vars

\* The row was deleted between a failed attempt and its retry.
C11_Witness ==
    /\ ret.op = "send_webhook_request_async"
    /\ ret.cause = "not_found"
    /\ ret.retries >= 1
    /\ deliveries[ret.id].deleted
    /\ deliveries[ret.id].status = PENDING
    /\ Len(attempts[ret.id]) = ret.retries

\* The transport function the dispatcher is to invoke for a scheme.
SenderFor(scheme) ==
    IF scheme \in {"http", "https"} THEN "send_webhook_using_http"
    ELSE IF scheme = "awssqs" THEN "send_webhook_using_aws_sqs"
    ELSE "send_webhook_using_google_cloud_pubsub"

\* The execution of the task reaches the dispatcher: the delivery exists, its
\* webhook is active and its payload is there.
ReachesDispatcher(d) ==
    /\ ~deliveries[d].deleted
    /\ deliveries[d].webhook \notin inactive
    /\ deliveries[d].payload # None

(* C12: send_webhook_using_scheme_method, called for a target URL with       *)
(* scheme http, https, awssqs or gcpubsub, invokes exactly one transport     *)
(* function exactly once: the HTTP sender for http and https, the SQS sender *)
(* for awssqs, the Pub/Sub sender for gcpubsub, with the signature of the    *)
(* encoded payload under the webhook's secret; for any other scheme it       *)
(* raises ValueError and invokes no transport function.                      *)
C12_DispatchByScheme ==
    [][\A task \in queue :
        LET d == task.event_delivery_id
            webhook == WebhookTable[deliveries[d].webhook]
        IN  \A response \in TransportResponses(deliveries[d].webhook) :
            (ReachesDispatcher(d) /\ RunTask(task, response))
            => LET message == [utf8 |-> payloads[deliveries[d].payload].payload]
               IN  /\ \A o \in DeliveryIds \ {d} : calls'[o] = calls[o]
                   /\ IF webhook.scheme \in {"http", "https", "awssqs", "gcpubsub"}
                      THEN calls'[d] =
                               Append(calls[d],
                                      [transport |-> SenderFor(webhook.scheme),
                                       message |-> message,
                                       signature |-> [signed |-> message,
                                                      key |-> webhook.secret_key]])
                      ELSE /\ calls'[d] = calls[d]
                           /\ ret'.cause = "unknown_scheme"
                           /\ LastAttempt(d)'.response.body = "ValueError"]_vars

\* The Pub/Sub sender was invoked once, with the payload signed under the
\* secret of the webhook.
C12_Witness ==
    /\ ret.op = "send_webhook_request_async"
    /\ Len(calls[ret.id]) = 1
    /\ calls[ret.id][1].transport = "send_webhook_using_google_cloud_pubsub"
    /\ calls[ret.id][1].signature.key = WebhookTable[deliveries[ret.id].webhook].secret_key
    /\ WebhookTable[deliveries[ret.id].webhook].scheme = GOOGLE_CLOUD_PUBSUB

UnknownScheme(d) == WebhookTable[deliveries[d].webhook].scheme \notin WebhookSchemes

(* C13 as claimed: an execution of send_webhook_request_async that reaches   *)
(* the dispatcher for a webhook with an unrecognized scheme ends by raising. *)
C13_UnknownSchemePropagates ==
    (/\ ret.op = "send_webhook_request_async"
     /\ UnknownScheme(ret.id)
     /\ Len(attempts[ret.id]) >= 1)
    => ret.outcome = "raise"

(* C13 amended: an execution of send_webhook_request_async that reaches the  *)
(* dispatcher for a webhook with an unrecognized scheme catches the          *)
(* ValueError: it returns normally, the attempt is recorded as failed with   *)
(* the error, the delivery is set to failed, no transport call is made and   *)
(* no retry is scheduled.                                                    *)
C13_UnknownSchemeRecorded ==
    [][\A task \in queue :
        LET d == task.event_delivery_id
        IN  \A response \in TransportResponses(deliveries[d].webhook) :
            (UnknownScheme(d) /\ ReachesDispatcher(d) /\ RunTask(task, response))
            => /\ ret'.outcome = "return"
               /\ Len(attempts'[d]) = Len(attempts[d]) + 1
               /\ LastAttempt(d)'.status = FAILED
               /\ LastAttempt(d)'.response.body = "ValueError"
               /\ deliveries'[d].status = FAILED
               /\ calls'[d] = calls[d]
               /\ TasksOf(queue', d) = {}]_vars

\* The task for a webhook with an ftp target has run and returned.
C13_Witness ==
    /\ ret.op = "send_webhook_request_async"
    /\ UnknownScheme(ret.id)
    /\ ret.outcome = "return"
    /\ Len(attempts[ret.id]) = 1
    /\ attempts[ret.id][1].status = FAILED
    /\ deliveries[ret.id].status = FAILED
    /\ deliveries[ret.id].payload # None

(* C14: no execution of send_webhook_request_async ends with an exception    *)
(* thrown by a sender: whatever the underlying send does (request exception, *)
(* SQS client failure, Pub/Sub publish or publish-future failure), the       *)
(* sender returns a WebhookResponse and the attempt of the execution is      *)
(* recorded with its status.                                                 *)
C14_SendersNeverRaise ==
    ret.op = "send_webhook_request_async" =>
        /\ ret.outcome # "raise"
        /\ \A i \in 1..Len(attempts[ret.id]) : attempts[ret.id][i].status # PENDING

DeliveriesOf(webhook) == {d \in DeliveryIds : deliveries[d].webhook = webhook}

\* The webhooks of the call, as a set of positions in the list.
Called == 1..Len(ret.webhooks)

(* C15 as claimed: after trigger_webhooks_async for the webhook list W there *)
(* are exactly |W| delivery rows, all pending, one per webhook; the          *)
(* deliveries of fixed-schema webhooks reference one shared payload and each *)
(* delivery of a subscription-mode webhook references a payload of its own.  *)
C15_OneDeliveryPerWebhook ==
    ret.op = "trigger_webhooks_async" =>
        /\ Len(deliveries) = Len(ret.webhooks)
        /\ \A k \in Called : Cardinality(DeliveriesOf(ret.webhooks[k])) = 1
        /\ \A d \in DeliveryIds : deliveries[d].status = PENDING
        /\ \A d, o \in DeliveryIds :
              (d # o) =>
                  (deliveries[d].payload = deliveries[o].payload
                   <=> (IsRegular(deliveries[d].webhook) /\ IsRegular(deliveries[o].webhook)))

\* The webhook gets a delivery from the fan-out of the event type.
GetsDelivery(event_type, webhook) ==
    \/ IsRegular(webhook)
    \/ event_type \in WEBHOOK_TYPES_MAP /\ WebhookTable[webhook].renders_data

(* C15 amended: after trigger_webhooks_async for the webhook list W there is *)
(* exactly one pending delivery row for every fixed-schema webhook of W and  *)
(* for every subscription-mode webhook of W whose event type is subscribable *)
(* and whose rendering yields data, and none for the other subscription-mode *)
(* webhooks; so at most |W| rows.  The deliveries of fixed-schema webhooks   *)
(* reference one shared payload, each delivery of a subscription-mode        *)
(* webhook a payload of its own, and there is no other payload row.          *)
C15_OneDeliveryPerServedWebhook ==
    ret.op = "trigger_webhooks_async" =>
        LET served == {k \in Called : GetsDelivery(ret.event_type, ret.webhooks[k])}
        IN  /\ Len(deliveries) = Cardinality(served)
            /\ Len(deliveries) <= Len(ret.webhooks)
            /\ \A k \in Called :
                  Cardinality(DeliveriesOf(ret.webhooks[k])) =
                      IF k \in served THEN 1 ELSE 0
            /\ \A d \in DeliveryIds :
                  /\ deliveries[d].status = PENDING
                  /\ deliveries[d].event_type = ret.event_type
                  /\ deliveries[d].payload \in 1..Len(payloads)
            /\ \A d, o \in DeliveryIds :
                  (d # o) =>
                      (deliveries[d].payload = deliveries[o].payload
                       <=> (IsRegular(deliveries[d].webhook) /\ IsRegular(deliveries[o].webhook)))
            /\ \A p \in 1..Len(payloads) : \E d \in DeliveryIds : deliveries[d].payload = p

\* Two fixed-schema webhooks share a payload next to a subscription-mode
\* webhook with its own; a mixed list with a skipped webhook.
C15_Witness ==
    /\ ret.op = "trigger_webhooks_async"
    /\ Len(ret.webhooks) = 3
    /\ Len(deliveries) = 3
    /\ Len(payloads) = 2
    /\ \E d \in DeliveryIds : IsSubscription(deliveries[d].webhook)

(* C16: in the async fan-out of a subscribable event, a subscription-mode    *)
(* webhook whose rendering yields empty data is skipped without raising: no  *)
(* payload, delivery or task exists for it, and every other webhook of the   *)
(* call has its pending delivery and the task for it.                        *)
C16_EmptyRenderSkippedAsync ==
    (/\ ret.op = "trigger_webhooks_async"
     /\ ret.event_type \in WEBHOOK_TYPES_MAP)
    => /\ ret.outcome = "return"
       /\ \A k \in Called :
             LET webhook == ret.webhooks[k]
             IN  IF EmptyRender(webhook)
                 THEN /\ DeliveriesOf(webhook) = {}
                      /\ \A p \in 1..Len(payloads) : payloads[p].payload.webhook # webhook
                      /\ \A task \in queue :
                            deliveries[task.event_delivery_id].webhook # webhook
                 ELSE \E d \in DeliveryIds :
                          /\ DeliveriesOf(webhook) = {d}
                          /\ deliveries[d].status = PENDING
                          /\ TasksOf(queue, d) = {Task(d, 0, 0)}
       /\ Cardinality(queue) = Len(deliveries)

\* The skipped webhook stands before a subscription-mode and a fixed-schema
\* webhook that both got their delivery and task.
C16_Witness ==
    /\ ret.op = "trigger_webhooks_async"
    /\ ret.event_type \in WEBHOOK_TYPES_MAP
    /\ Len(ret.webhooks) = 3
    /\ EmptyRender(ret.webhooks[1])
    /\ IsSubscription(ret.webhooks[2])
    /\ IsRegular(ret.webhooks[3])
    /\ Len(deliveries) = 2
    /\ Cardinality(queue) = 2

(* C17: in trigger_all_webhooks_sync for an event type that is not in the    *)
(* subscribable-event-type map, a subscription-mode webhook is skipped:      *)
(* nothing is created or sent for it, no error is raised, and the invocation *)
(* ends at it only if it is the last one, so the webhooks that follow are    *)
(* still called.                                                             *)
C17_NotSubscribableSkipped ==
    \A k \in 1..Len(frame.webhooks) :
        (/\ frame.pc # "idle"
         /\ frame.i = k
         /\ frame.event_type \notin WEBHOOK_TYPES_MAP
         /\ IsSubscription(frame.webhooks[k]))
        => /\ UntouchedAt(k)
           /\ frame.pc \in {"loop", "returned"}
           /\ frame.pc = "returned" => (k = Len(frame.webhooks) /\ frame.result = None)

\* The loop of trigger_all_webhooks_sync has taken up the webhook at position k.
ReachedAt(k) ==
    /\ frame.pc # "idle"
    /\ k \in 1..Len(frame.webhooks)
    /\ \/ k < frame.i
       \/ k = frame.i /\ frame.pc \in {"returned", "raised"}

SubscriptionsReached ==
    {k \in 1..Len(frame.webhooks) : ReachedAt(k) /\ IsSubscription(frame.webhooks[k])}

(* C18: in one invocation of trigger_all_webhooks_sync the request context   *)
(* is built exactly when the first subscription-mode webhook is reached, so  *)
(* not at all while only fixed-schema webhooks were reached and never a      *)
(* second time, and every rendering of a subscription-mode webhook of the    *)
(* invocation is given that one context.                                     *)
C18_RequestContextOnce ==
    /\ frame.initialized = IF SubscriptionsReached = {} THEN 0 ELSE 1
    /\ (frame.request_context = None) <=> (SubscriptionsReached = {})
    /\ Len(frame.renderings) =
          IF frame.event_type \in WEBHOOK_TYPES_MAP
          THEN Cardinality(SubscriptionsReached) ELSE 0
    /\ \A j \in 1..Len(frame.renderings) :
          frame.renderings[j] # None /\ frame.renderings[j] = frame.request_context

\* A fixed-schema webhook was called before the context was built, and two
\* subscription-mode webhooks were then rendered with it.
C18_Witness ==
    /\ Len(frame.webhooks) = 3
    /\ IsRegular(frame.webhooks[1])
    /\ Cardinality(SubscriptionsReached) = 2
    /\ Len(frame.renderings) = 2
    /\ frame.initialized = 1

\* The transport call of the delivery was started and its outcome is not
\* recorded yet.
InFlight(d) ==
    /\ Len(calls[d]) = Len(attempts[d])
    /\ Len(attempts[d]) >= 1
    /\ LastAttempt(d).status = PENDING

\* The attempt and the status of the delivery have been recorded.
Recorded(d) ==
    /\ Len(attempts[d]) = 1
    /\ Len(calls[d]) = 1
    /\ attempts[d][1].status \in {SUCCESS, FAILED}
    /\ deliveries[d].status = attempts[d][1].status

(* C19: in one invocation of trigger_all_webhooks_sync the deliveries are    *)
(* created in the order of the webhook list, the delivery of the next        *)
(* webhook exists only when the attempt and the delivery status of every     *)
(* earlier one have been recorded, and at most one transport call, that of   *)
(* the newest delivery, is in flight.                                        *)
C19_Sequential ==
    frame.pc # "idle" =>
        /\ \A d \in DeliveryIds :
              /\ d <= Len(frame.webhooks)
              /\ deliveries[d].webhook = frame.webhooks[d]
              /\ d < Len(deliveries) => Recorded(d)
              /\ InFlight(d) => d = Len(deliveries)
        /\ Cardinality({d \in DeliveryIds : InFlight(d)}) <= 1
        /\ Len(deliveries) \in {frame.i - 1, frame.i}

\* The call of the third webhook is in flight after the answers of the first
\* two were recorded and rejected.
C19_Witness ==
    /\ frame.pc = "in_flight"
    /\ frame.i = 3
    /\ Len(deliveries) = 3
    /\ InFlight(3)
    /\ Recorded(1)
    /\ Recorded(2)

(* C20 as claimed: the status of an existing delivery with at least one      *)
(* attempt equals the recorded status of its latest attempt, also after a    *)
(* failed attempt that scheduled a retry.                                    *)
C20_StatusIsLatestAttempt ==
    \A d \in DeliveryIds :
        (~deliveries[d].deleted /\ Len(attempts[d]) >= 1)
        => deliveries[d].status = LastAttempt(d).status

(* C20 amended: the status of an existing delivery with at least one attempt *)
(* equals the recorded status of its latest attempt, except that after a     *)
(* failed attempt that scheduled a retry the delivery is still pending, with *)
(* the retry waiting; a success or failed status of the delivery always      *)
(* agrees with the latest attempt.                                           *)
C20_StatusFollowsAttempts ==
    \A d \in DeliveryIds :
        (~deliveries[d].deleted /\ Len(attempts[d]) >= 1)
        => \/ deliveries[d].status = LastAttempt(d).status
           \/ /\ LastAttempt(d).status = FAILED
              /\ deliveries[d].status = PENDING
              /\ \E task \in queue :
                    /\ task.event_delivery_id = d
                    /\ task.retries = Len(attempts[d])

\* Two attempts failed, the delivery is pending and the second retry waits.
C20_Witness ==
    \E d \in DeliveryIds :
        /\ ~deliveries[d].deleted
        /\ Len(attempts[d]) = 2
        /\ LastAttempt(d).status = FAILED
        /\ deliveries[d].status = PENDING
        /\ Task(d, 2, 20) \in queue

(* C21: when send_webhook_request_async is executed more than once for the   *)
(* same delivery id, the attempt rows of the delivery only grow, an          *)
(* execution adds at most one attempt and changes no earlier one, and a      *)
(* delivery that was marked success is never marked failed afterwards.       *)
C21_DuplicateTolerated ==
    /\ [](\A d \in DeliveryIds :
            \A i, j \in 1..Len(writes[d]) :
                (i < j /\ writes[d][i] = SUCCESS) => writes[d][j] # FAILED)
    /\ [][\A d \in DeliveryIds :
            /\ Len(attempts'[d]) \in {Len(attempts[d]), Len(attempts[d]) + 1}
            /\ \A i \in 1..Len(attempts[d]) : attempts'[d][i] = attempts[d][i]]_vars

ReportsOf(d, a) == {i \in 1..Len(reports[d]) : reports[d][i].attempt = a}

LastReport(d) == reports[d][Len(reports[d])]

\* The execution that ret describes created an attempt and returned or retried.
ExecutionWithAttempt ==
    \/ /\ ret.op = "send_webhook_request_async"
       /\ ret.outcome \in {"return", "retry"}
       /\ ret.cause \notin {"not_found", "inactive"}
    \/ /\ ret.op = "trigger_webhook_sync"
       /\ ret.outcome = "return"
       /\ DeliveryIds # {}

(* C22: every attempt whose execution returned or scheduled a retry has      *)
(* exactly one observability report, written by that execution; the report   *)
(* carries the next-retry time (the countdown of the retry) exactly when     *)
(* the execution scheduled a retry, and none when the attempt succeeded or   *)
(* the failure was terminal.                                                 *)
C22_AttemptReportedOnce ==
    /\ \A d \in DeliveryIds :
          /\ \A a \in 1..Len(attempts[d]) :
                attempts[d][a].status # PENDING => Cardinality(ReportsOf(d, a)) = 1
          /\ \A i \in 1..Len(reports[d]) :
                /\ reports[d][i].attempt = i
                /\ i < Len(reports[d]) => reports[d][i].next_retry = countdown(i - 1)
                /\ reports[d][i].next_retry # None => attempts[d][i].status = FAILED
    /\ ExecutionWithAttempt
       => LET d == IF ret.op = "trigger_webhook_sync" THEN 1 ELSE ret.id
          IN  /\ Len(reports[d]) = Len(attempts[d])
              /\ Len(reports[d]) >= 1
              /\ LastReport(d).next_retry # None <=> ret.outcome = "retry"
              /\ ret.outcome = "retry"
                 => /\ LastReport(d).next_retry = countdown(ret.retries)
                    /\ Task(d, ret.retries + 1, countdown(ret.retries)) \in queue

\* The sixth execution exhausted the retries: five reports carry the time of
\* the next retry, the last one carries none.
C22_Witness ==
    /\ ret.op = "send_webhook_request_async"
    /\ ret.cause = "retries_exceeded"
    /\ Len(reports[ret.id]) = max_retries + 1
    /\ reports[ret.id][1].next_retry = retry_backoff
    /\ LastReport(ret.id).next_retry = None

\* The transport calls made for the k-th webhook of the list.
ObsCallsOf(k) == IF k <= Len(obs.sent) THEN obs.sent[k] ELSE <<>>

(* C23: when send_observability_events has ended, every webhook of the list  *)
(* whose scheme is awssqs or gcpubsub got exactly one transport call per     *)
(* event of the batch, in batch order, and every http or https webhook got   *)
(* exactly one transport call that carries the whole batch.                  *)
C23_CallsPerScheme ==
    obs.pc \in {"returned", "raised"}
    => \A k \in 1..Len(obs.webhooks) :
          LET webhook == obs.webhooks[k]
              scheme == WebhookTable[webhook].scheme
          IN  /\ scheme \in {AWS_SQS, GOOGLE_CLOUD_PUBSUB}
                 => ObsCallsOf(k) =
                        [i \in 1..Len(obs.events) |->
                            ObsCall(webhook, dump_payload(obs.events[i]))]
              /\ scheme \in {HTTP, HTTPS}
                 => ObsCallsOf(k) = <<ObsCall(webhook, dump_payload(obs.events))>>

\* The host name has the form sqs.<region>.*: the label sqs, the region and
\* at least one more label.
SqsRegionForm(hostname_parts) == Len(hostname_parts) >= 3 /\ hostname_parts[1] = "sqs"

(* C24: send_webhook_using_aws_sqs builds the client for the region named    *)
(* by the second label of a host of the form sqs.<region>.* and for          *)
(* us-east-1 for any other host, and passes MessageGroupId, equal to the     *)
(* domain, to send_message exactly when the path ends with .fifo.            *)
C24_RegionAndMessageGroup ==
    sqs.pc = "sent"
    => /\ sqs.region_name = IF SqsRegionForm(sqs.hostname_parts)
                            THEN sqs.hostname_parts[2] ELSE "us-east-1"
       /\ "MessageGroupId" \in DOMAIN sqs.send_message
          <=> sqs.path[Len(sqs.path)] = ".fifo"
       /\ "MessageGroupId" \in DOMAIN sqs.send_message
          => sqs.send_message.MessageGroupId = sqs.domain

\* The calls of trigger_webhooks_async made for the object.
CallsFor(object) ==
    {k \in 1..Len(api.calls) : api.calls[k].subscribable_object = object}

\* The payload rows that hold the text.
PayloadRows(data) == {p \in 1..Len(payloads) : payloads[p].payload = data}

FailedResponseExecution ==
    /\ ret.op = "send_webhook_request_async"
    /\ Len(attempts[ret.id]) = ret.retries + 1
    /\ LastAttempt(ret.id).status = FAILED
    /\ LastAttempt(ret.id).response.body = "error"

\* What an execution with a failed response and retries left has done.
RetryKeepsPending ==
    (FailedResponseExecution /\ ret.retries < max_retries)
    => /\ ret.outcome = "retry"
       /\ TasksOf(queue, ret.id) = {Task(ret.id, ret.retries + 1, countdown(ret.retries))}
       /\ writes[ret.id] = <<PENDING>>
       /\ deliveries[ret.id].status = PENDING
       /\ deliveries[ret.id].payload = None
          => \E p \in 1..Len(payloads) : payloads[p].deleted

RetriesExhausted(d) ==
    /\ Len(attempts[d]) = max_retries + 1
    /\ LastAttempt(d).status = FAILED

AttemptSucceeded(d) == Len(attempts[d]) >= 1 /\ LastAttempt(d).status = SUCCESS

\* The last execution for the delivery ended before any response of a
\* transport: the webhook was disabled, or a ValueError was raised for a
\* missing payload or an unknown scheme.
EndedWithoutResponse(d) ==
    \/ deliveries[d].webhook \in inactive
    \/ Len(attempts[d]) >= 1 /\ LastAttempt(d).response.body = "ValueError"

\* The deliveries send_webhook_request_async works on: those created by
\* trigger_webhooks_async (trigger_webhook_sync sends its delivery itself).
AsyncDeliveries == IF ret.op = "trigger_webhook_sync" THEN {} ELSE DeliveryIds

(* C26 as claimed: an execution that gets a failed response with fewer than  *)
(* 5 retries made records the attempt as failed, schedules one retry of the  *)
(* delivery, writes no terminal status and does not clear the delivery; a    *)
(* delivery has status success or failed only after an execution in which    *)
(* the retries were exhausted or the attempt succeeded.                      *)
C26_TerminalOnlyAfterRetries ==
    /\ RetryKeepsPending
    /\ \A d \in AsyncDeliveries :
          deliveries[d].status # PENDING => (RetriesExhausted(d) \/ AttemptSucceeded(d))

(* C26 amended: as above, and a delivery has status success or failed only   *)
(* after an execution in which the retries were exhausted or the attempt     *)
(* succeeded, or one that ended without a response of the transport          *)
(* (disabled webhook, missing payload, unknown scheme).                      *)
C26_TerminalOnlyAtChainEnd ==
    /\ RetryKeepsPending
    /\ \A d \in AsyncDeliveries :
          deliveries[d].status # PENDING
          => (RetriesExhausted(d) \/ AttemptSucceeded(d) \/ EndedWithoutResponse(d))

\* The third execution failed with retries left: three failed attempts, the
\* delivery pending and the third retry waiting.
C26_Witness ==
    /\ FailedResponseExecution
    /\ ret.retries = 2
    /\ ret.outcome = "retry"
    /\ writes[ret.id] = <<PENDING>>
    /\ Task(ret.id, 3, 40) \in queue

\* The retries scheduled for the delivery so far: self.retry was called and
\* the attempt reported with the time of the retry.
RetriesScheduled(d) == {i \in 1..Len(reports[d]) : reports[d][i].next_retry # None}

(* C27: without duplicate executions at most 6 executions make a transport   *)
(* call for a delivery and at most 5 retries are scheduled for it; the       *)
(* execution that exhausts the retries sets the delivery to failed, returns  *)
(* and schedules nothing; no execution waits for a delivery whose status is  *)
(* success or failed.                                                        *)
C27_RetryChainBounded ==
    /\ \A d \in AsyncDeliveries :
          /\ Len(calls[d]) <= max_retries + 1
          /\ Cardinality(RetriesScheduled(d)) <= max_retries
          /\ \A task \in TasksOf(queue, d) : task.retries <= max_retries
          /\ deliveries[d].status # PENDING => TasksOf(queue, d) = {}
    /\ (FailedResponseExecution /\ ret.retries = max_retries)
       => /\ ret.outcome = "return"
          /\ deliveries[ret.id].status = FAILED
          /\ writes[ret.id] = <<PENDING, FAILED>>
          /\ Len(calls[ret.id]) = max_retries + 1
          /\ TasksOf(queue, ret.id) = {}

\* The sixth execution got a failed response like the five before it.
C27_Witness ==
    /\ FailedResponseExecution
    /\ ret.retries = max_retries
    /\ Len(calls[ret.id]) = 6
    /\ Cardinality(RetriesScheduled(ret.id)) = 5
    /\ deliveries[ret.id].status = FAILED

(* C28: every delivery created by trigger_webhooks_async eventually leaves   *)
(* status pending or is removed, provided the task queue runs every waiting  *)
(* execution, whatever the transports do.  Only an execution of              *)
(* send_webhook_request_async writes the status, so the property is stated   *)
(* in the form a finite run decides: a delivery that is still there and has  *)
(* no execution waiting is not pending.                                      *)
C28_NoDeliveryLeftPending ==
    \A d \in AsyncDeliveries :
        (TasksOf(queue, d) = {} /\ ~deliveries[d].deleted)
        => deliveries[d].status \in {SUCCESS, FAILED}

\* What one execution for the delivery does when request.retries is n.
ExecutionAt(d, n) ==
    send_webhook_request_async(Store, Task(d, n, 0), Sent(deliveries[d].webhook))

(* C29: an execution of send_webhook_request_async that meets an unknown URL *)
(* scheme schedules no retry and records its attempt and the delivery as     *)
(* failed before it returns, whatever the number of retries made so far.     *)
C29_UnknownSchemeNotRetried ==
    /\ (/\ ret.op = "send_webhook_request_async"
        /\ UnknownScheme(ret.id)
        /\ Len(attempts[ret.id]) = ret.retries + 1)
       => /\ ret.outcome = "return"
          /\ TasksOf(queue, ret.id) = {}
          /\ RetriesScheduled(ret.id) = {}
          /\ LastAttempt(ret.id).status = FAILED
          /\ writes[ret.id] = <<PENDING, FAILED>>
          /\ calls[ret.id] = <<>>
    /\ \A d \in AsyncDeliveries :
          (UnknownScheme(d) /\ ReachesDispatcher(d))
          => \A n \in 0..max_retries :
                LET r == ExecutionAt(d, n)
                    a == Len(r.s.attempts[d])
                IN  /\ r.outcome = "return"
                    /\ r.tasks = {}
                    /\ a = Len(attempts[d]) + 1
                    /\ r.s.attempts[d][a].status = FAILED
                    /\ r.s.deliveries[d].status = FAILED
                    /\ r.s.calls[d] = calls[d]

\* The execution for a webhook with an ftp target has ended: one failed
\* attempt, the delivery failed, nothing sent and nothing waiting.
C29_Witness ==
    /\ ret.op = "send_webhook_request_async"
    /\ ret.cause = "unknown_scheme"
    /\ writes[ret.id] = <<PENDING, FAILED>>
    /\ Len(attempts[ret.id]) = 1
    /\ queue = {}

\* The delivery exists, its webhook is active and its payload reference is null.
NoPayload(d) ==
    /\ ~deliveries[d].deleted
    /\ deliveries[d].webhook \notin inactive
    /\ deliveries[d].payload = None

(* C30: an execution of send_webhook_request_async for an existing delivery  *)
(* with an active webhook and no payload creates one attempt, makes no       *)
(* transport call, records the attempt and the delivery as failed,           *)
(* schedules no retry and returns without raising.                           *)
C30_NoPayloadFails ==
    /\ \A task \in queue :
          LET d == task.event_delivery_id
          IN  NoPayload(d)
              => \A response \in TransportResponses(deliveries[d].webhook) :
                    LET r == send_webhook_request_async(Store, task, response)
                        a == Len(r.s.attempts[d])
                    IN  /\ r.outcome = "return"
                        /\ r.tasks = {}
                        /\ a = Len(attempts[d]) + 1
                        /\ r.s.attempts[d][a].status = FAILED
                        /\ r.s.deliveries[d].status = FAILED
                        /\ r.s.calls = calls
    /\ (ret.op = "send_webhook_request_async" /\ ret.cause = "no_payload")
       => /\ ret.outcome = "return"
          /\ Len(attempts[ret.id]) = ret.retries + 1
          /\ Len(calls[ret.id]) = ret.retries
          /\ LastAttempt(ret.id).status = FAILED
          /\ writes[ret.id] = <<PENDING, FAILED>>
          /\ TasksOf(queue, ret.id) = {}

\* The payload was purged while the first retry was waiting; the retry ran.
C30_Witness ==
    /\ ret.op = "send_webhook_request_async"
    /\ ret.cause = "no_payload"
    /\ ret.retries = 1
    /\ Len(attempts[ret.id]) = 2
    /\ Len(calls[ret.id]) = 1
    /\ deliveries[ret.id].status = FAILED

\* The body of the answer is a JSON document.
ValidJson(content) == ~json_loads(content).error

(* C31: send_webhook_request_sync returns the decoded body exactly when the  *)
(* POST was answered with a 2xx status and the body is valid JSON; in every  *)
(* other case (request exception, non-2xx answer, body that is not JSON) it  *)
(* returns None and records the attempt as failed; the status written to     *)
(* the delivery is the status recorded on the attempt.                       *)
C31_SyncReturnsDecodedBody ==
    /\ frame.pc = "in_flight"
       => \A h \in HttpResponses(frame.webhooks[frame.i]) :
             LET d == frame.delivery
                 a == Len(attempts[d])
                 r == sync_answer(Store, d, h)
                 ok == h.status = SUCCESS /\ ValidJson(h.content)
             IN  /\ r.outcome = "return"
                 /\ r.value = IF ok THEN h.content ELSE NoData
                 /\ r.s.attempts[d][a].status = IF ok THEN SUCCESS ELSE FAILED
                 /\ r.s.attempts[d][a].response = h.content
                 /\ r.s.deliveries[d].status = r.s.attempts[d][a].status
    /\ \A d \in DeliveryIds :
          (Len(attempts[d]) >= 1 /\ LastAttempt(d).status # PENDING)
          => /\ deliveries[d].status = LastAttempt(d).status
             /\ LastAttempt(d).status = SUCCESS => ValidJson(LastAttempt(d).response)

\* A non-2xx answer with a JSON body was recorded as failed, and a later 2xx
\* answer with a JSON body as success.
C31_Witness ==
    \E d1, d2 \in DeliveryIds :
        /\ d1 < d2
        /\ Len(attempts[d1]) = 1
        /\ Len(attempts[d2]) = 1
        /\ LastAttempt(d1).status = FAILED
        /\ ValidJson(LastAttempt(d1).response)
        /\ deliveries[d1].status = FAILED
        /\ LastAttempt(d2).status = SUCCESS
        /\ deliveries[d2].status = SUCCESS

\* The attempt rows of the delivery without response fields.
Unanswered(d) == {a \in 1..Len(attempts[d]) : attempts[d][a].response.body = "unset"}

\* The execution with its transport call open, or interrupted in it, left
\* one attempt without response for the delivery: its own, the latest.
OneOpenAttempt(d) ==
    /\ Len(attempts[d]) >= 1
    /\ Len(calls[d]) = Len(attempts[d])
    /\ Unanswered(d) = {Len(attempts[d])}
    /\ LastAttempt(d).status = PENDING
    /\ deliveries[d].status = PENDING

(* C32: in send_webhook_request_async and send_webhook_request_sync the      *)
(* attempt row exists before the transport call starts and gets its          *)
(* response only after the call returned; an execution creates at most one   *)
(* attempt row; an execution interrupted during the transport call leaves    *)
(* exactly one attempt row without response fields.                          *)
C32_AttemptBeforeCall ==
    /\ \A d \in DeliveryIds :
          /\ Len(calls[d]) <= Len(attempts[d])
          /\ \A task \in TasksOf(queue, d) : Len(attempts[d]) = task.retries
          /\ (running.pc = "idle" /\ frame.pc \notin {"in_flight", "interrupted"})
             => \A a \in 1..Len(attempts[d]) :
                   attempts[d][a].response.body = "unset"
                   => /\ ret.outcome = "raise"
                      /\ a = Len(attempts[d])
    /\ running.pc \in {"in_flight", "interrupted"}
       => /\ OneOpenAttempt(running.task.event_delivery_id)
          /\ running.attempt = running.task.retries + 1
          /\ Len(attempts[running.task.event_delivery_id]) = running.attempt
    /\ frame.pc \in {"in_flight", "interrupted"}
       => /\ OneOpenAttempt(frame.delivery)
          /\ Len(attempts[frame.delivery]) = 1

\* The third execution for a delivery was interrupted in its transport call
\* after two failed attempts.
C32_Witness ==
    /\ running.pc = "interrupted"
    /\ running.task.retries = 2
    /\ Len(attempts[running.task.event_delivery_id]) = 3
    /\ Unanswered(running.task.event_delivery_id) = {3}

\* The scheme of the delivery's target URL.
SchemeOf(d) == WebhookTable[deliveries[d].webhook].scheme

\* send_webhook_request_sync has refused the delivery d of the running
\* invocation of trigger_all_webhooks_sync, which ended there.
RefusedAndEnded(d) ==
    /\ deliveries[d].status = FAILED
    /\ attempts[d] = <<>>
    /\ calls[d] = <<>>
    /\ frame.pc = "raised"
    /\ frame.error = "ValueError"
    /\ frame.webhooks[frame.i] = deliveries[d].webhook
    /\ d = Len(deliveries)
    /\ \A k \in (frame.i + 1)..Len(frame.webhooks) :
          \A e \in DeliveryIds : deliveries[e].webhook # frame.webhooks[k]

GeneratedPayloads == {p \in 1..Len(payloads) : payloads[p].payload.kind = "generated"}

\* The deliveries of fixed-schema webhooks.
FixedSchemaDeliveries ==
    {d \in DeliveryIds : ~WebhookTable[deliveries[d].webhook].subscription_query}

\* The delivery succeeded and clear_successful_delivery detached its payload.
Cleared(d) == deliveries[d].status = SUCCESS /\ deliveries[d].payload = None

(* C34: within one invocation of trigger_all_webhooks_sync generate_payload  *)
(* is called and a fixed-schema EventPayload created at most once, when the  *)
(* first fixed-schema webhook is reached; every fixed-schema delivery of the *)
(* invocation references that payload, which is still present when a later  *)
(* delivery is created and sent, also after an earlier delivery sharing it   *)
(* succeeded and was cleared.                                                *)
C34_OnePayloadPerInvocation ==
    /\ Cardinality(GeneratedPayloads) <= 1
    /\ GeneratedPayloads = IF frame.event_payload = None THEN {} ELSE {frame.event_payload}
    /\ (frame.event_payload = None) = (FixedSchemaDeliveries = {})
    /\ \A d \in FixedSchemaDeliveries :
          /\ ~Cleared(d) => deliveries[d].payload = frame.event_payload
          /\ ~payloads[frame.event_payload].deleted
          /\ frame.delivery = d
             => /\ deliveries[d].payload = frame.event_payload
                /\ frame.pc = "created"
                   => sync_post(Store, d).s.payloads = payloads
    /\ (frame.pc = "loop" /\ frame.i <= Len(frame.webhooks)
        /\ ~WebhookTable[frame.webhooks[frame.i]].subscription_query)
       => LET c == loop_delivery(frame, Store)
          IN  /\ c.s.deliveries[c.delivery].payload = c.f.event_payload
              /\ frame.event_payload # None
                 => /\ c.f.event_payload = frame.event_payload
                    /\ c.s.payloads = payloads

\* The second fixed-schema delivery is in flight with the payload of the
\* first, which succeeded with a response the caller rejected and was cleared.
C34_Witness ==
    /\ frame.pc = "in_flight"
    /\ frame.delivery = 2
    /\ FixedSchemaDeliveries = {1, 2}
    /\ Cleared(1)
    /\ deliveries[2].payload = frame.event_payload
    /\ GeneratedPayloads = {frame.event_payload}
    /\ Len(calls[2]) = 1

\* The number of calls of send_webhook_request_async.delay with the id d.
DelayCount(d) == Cardinality({i \in 1..Len(delayed) : delayed[i] = d})

(* C35: trigger_webhooks_async enqueues send_webhook_request_async exactly   *)
(* once for each delivery it created and for no other delivery id, after the *)
(* payload and delivery rows of the call have been persisted; with an empty  *)
(* webhook list it creates no payload and no delivery and enqueues nothing.  *)
C35_OneTaskPerDelivery ==
    ret.op = "trigger_webhooks_async" =>
        /\ \A d \in DeliveryIds : DelayCount(d) = 1 /\ Task(d, 0, 0) \in queue
        /\ Len(delayed) = Len(deliveries)
        /\ \A i \in 1..Len(delayed) :
              /\ delayed[i] \in DeliveryIds
              /\ deliveries[delayed[i]].status = PENDING
              /\ deliveries[delayed[i]].payload \in 1..Len(payloads)
        /\ queue = {Task(d, 0, 0) : d \in DeliveryIds}
        /\ ret.webhooks = <<>>
           => payloads = <<>> /\ deliveries = <<>> /\ queue = {} /\ delayed = <<>>

\* Three webhooks, fixed-schema and subscription-mode, each with its task.
C35_Witness ==
    /\ ret.op = "trigger_webhooks_async"
    /\ Len(ret.webhooks) = 3
    /\ Len(deliveries) = 3
    /\ Len(payloads) = 2
    /\ Cardinality(queue) = 3
    /\ \A d \in 1..3 : DelayCount(d) = 1

\* The call with no webhook.
C35_WitnessEmpty ==
    /\ ret.op = "trigger_webhooks_async"
    /\ ret.webhooks = <<>>
    /\ delayed = <<>>

\* The delivery has a payload row.
HasPayload(d) ==
    /\ deliveries[d].payload \in 1..Len(payloads)
    /\ ~payloads[deliveries[d].payload].deleted

(* C36: every EventDelivery is created with a payload; its payload reference *)
(* is removed only after its own status became success; every delivery in    *)
(* status pending or failed still has its payload, also when another         *)
(* delivery sharing the payload has succeeded and been cleared.              *)
C36_PayloadKeptUntilSuccess ==
    \A d \in DeliveryIds :
        /\ ~HasPayload(d) => \E i \in 1..Len(writes[d]) : writes[d][i] = SUCCESS
        /\ deliveries[d].status \in {PENDING, FAILED} => HasPayload(d)

\* Two deliveries share a payload; one succeeded and was cleared, the other
\* failed for good and still has the payload.
C36_SharedPayloadKept ==
    \E d1, d2 \in DeliveryIds :
        /\ d1 # d2
        /\ deliveries[d1].status = SUCCESS
        /\ ~HasPayload(d1)
        /\ deliveries[d2].status = FAILED
        /\ deliveries[d2].payload = 1

\* What an execution may change on the row of its own delivery.
SameButStatusAndPayload(before, after) ==
    /\ after.webhook = before.webhook
    /\ after.event_type = before.event_type
    /\ after.deleted = before.deleted

(* C37: an execution of send_webhook_request_async for the delivery d        *)
(* changes only d's status, d's payload reference and d's own attempt rows;  *)
(* status, payload reference and attempts of every other delivery are        *)
(* unchanged, so the deliveries of one event succeed, retry and fail         *)
(* independently of each other in any interleaving.                          *)
C37_ExecutionTouchesOwnDelivery ==
    \A task \in queue :
        \A response \in TransportResponses(deliveries[task.event_delivery_id].webhook) :
            LET d == task.event_delivery_id
                r == send_webhook_request_async(Store, task, response)
            IN  /\ r.s.payloads = payloads
                /\ Len(r.s.deliveries) = Len(deliveries)
                /\ SameButStatusAndPayload(deliveries[d], r.s.deliveries[d])
                /\ \A a \in 1..Len(attempts[d]) : r.s.attempts[d][a] = attempts[d][a]
                /\ \A e \in DeliveryIds \ {d} :
                      /\ r.s.deliveries[e] = deliveries[e]
                      /\ r.s.attempts[e] = attempts[e]
                      /\ r.s.calls[e] = calls[e]
                      /\ r.s.writes[e] = writes[e]
                      /\ r.s.reports[e] = reports[e]
                /\ \A next \in r.tasks : next.event_delivery_id = d

\* Two deliveries of one payload: one succeeded at its first attempt, the
\* other failed twice and waits for its third.
C37_Witness ==
    \E d1, d2 \in DeliveryIds :
        /\ d1 # d2
        /\ writes[d1] = <<PENDING, SUCCESS>>
        /\ Len(attempts[d1]) = 1
        /\ deliveries[d2].payload = 1
        /\ deliveries[d2].status = PENDING
        /\ Len(attempts[d2]) = 2
        /\ LastAttempt(d2).status = FAILED
        /\ Task(d2, 2, 20) \in queue

\* The number of failed sends among the responses.
FailedSends(responses) ==
    Cardinality({i \in DOMAIN responses : responses[i].status = FAILED})

\* The dropped-event count the claim gives for one webhook.
DroppedAsClaimed(webhook, events, responses) ==
    LET scheme == WebhookTable[webhook].scheme
    IN  IF scheme \in {AWS_SQS, GOOGLE_CLOUD_PUBSUB} THEN FailedSends(responses)
        ELSE IF scheme \in {HTTP, HTTPS}
        THEN IF responses[1].status = FAILED THEN Len(events) ELSE 0
        ELSE Len(events)

(* C38: send_observability_events handles each webhook independently: the    *)
(* batch is offered to every webhook of the list; a failure for one webhook  *)
(* (failed responses, or an unknown scheme) never prevents the sends to the  *)
(* webhooks after it and never raises; the dropped-event count of a webhook  *)
(* is the number of failed sends for awssqs and gcpubsub targets, the batch  *)
(* size for a failed http or https send or an unknown scheme, 0 otherwise.   *)
C38_WebhooksIndependent ==
    /\ obs.pc # "raised"
    /\ obs.pc \in {"returned", "raised"} => Len(obs.sent) = Len(obs.webhooks)
    /\ (obs.pc = "loop" /\ obs.w <= Len(obs.webhooks))
       => \A responses \in [1..Len(obs.events) -> TransportResponses(obs.webhooks[obs.w])] :
             LET r == send_observability_events_to(obs.webhooks[obs.w], obs.events, responses)
             IN  /\ r.outcome # "raised"
                 /\ r.failed = DroppedAsClaimed(obs.webhooks[obs.w], obs.events, responses)

(* C39: observability_reporter_task and observability_send_events pop       *)
(* events from the buffer only when at least one observability webhook       *)
(* exists, otherwise the buffer is left unchanged; every non-empty batch     *)
(* popped by either task is passed to send_observability_events for all      *)
(* webhooks in the same execution; the reporter enqueues exactly batch_count *)
(* sender tasks when the remaining batch count is positive, none otherwise.  *)
C39_FlushOnlyWithWebhooks ==
    LET last == reporter.last
    IN  last.op # "none" =>
            /\ last.webhooks = <<>>
               => /\ last.popped = <<>>
                  /\ last.sends = <<>>
                  /\ last.enqueued = 0
                  /\ last.buffer_after = last.buffer_before
            /\ last.buffer_after = SubSeq(last.buffer_before, Len(last.popped) + 1,
                                        Len(last.buffer_before))
            /\ last.popped = SubSeq(last.buffer_before, 1, Len(last.popped))
            /\ last.popped # <<>> => last.sends = <<ObsSend(reporter.webhooks, last.popped)>>
            /\ last.popped = <<>> => last.sends = <<>>
            /\ last.webhooks # <<>>
               => /\ last.batch_count = in_batches(Len(last.buffer_after))
                  /\ Len(last.popped) = Min(Len(last.buffer_before), batch_size)
            /\ last.op = "observability_reporter_task"
               => last.enqueued = IF last.batch_count > 0 THEN last.batch_count ELSE 0
            /\ last.op = "observability_send_events" => last.enqueued = 0

\* The reporter found five events: it sent the first batch and enqueued two
\* sender tasks for the three events left.
C39_Witness ==
    /\ reporter.last.op = "observability_reporter_task"
    /\ Len(reporter.last.buffer_before) = 5
    /\ Len(reporter.last.popped) = batch_size
    /\ reporter.last.enqueued = 2
    /\ reporter.tasks = 2
    /\ Len(reporter.last.sends) = 1
    /\ Len(reporter.webhooks) = 2

\* The reporter ran with events in the buffer and no webhook.
C39_WitnessNoWebhook ==
    /\ reporter.last.op = "observability_reporter_task"
    /\ reporter.webhooks = <<>>
    /\ Len(reporter.last.buffer_after) >= 1

\* The payment_failed events of the order.
PaymentFailedEvents(order) ==
    {i \in 1..Len(order.events) : order.events[i].type = "payment_failed"}

(* C40: if the function wrapped by try_payment_action raises PaymentError or *)
(* ValueError, exactly one payment_failed event is recorded for the order    *)
(* and a ValidationError with code PAYMENT_ERROR is raised; if the function  *)
(* returns, its result is returned after the order is refreshed and no       *)
(* payment_failed event is recorded.                                         *)
C40_PaymentFailureTranslated ==
    /\ (payment.func.outcome = "raise" /\ payment.func.error \in {"PaymentError", "ValueError"})
       => /\ Len(payment.order.events) = Len(payment.before.events) + 1
          /\ Cardinality(PaymentFailedEvents(payment.order))
                = Cardinality(PaymentFailedEvents(payment.before)) + 1
          /\ payment.order.events[Len(payment.order.events)].message = payment.func.error
          /\ payment.outcome = "raise"
          /\ payment.error = "ValidationError"
          /\ payment.code = "PAYMENT_ERROR"
    /\ payment.func.outcome = "return"
       => /\ payment.outcome = "return"
          /\ payment.value = payment.func.value
          /\ payment.order.refreshed = payment.before.refreshed + 1
          /\ payment.order.events = payment.before.events

\* A payment call whose webhook has a queue target raised ValueError after a
\* call that returned the answer of the payment app.
C40_Witness ==
    /\ payment.actions = 2
    /\ payment.func.outcome = "raise"
    /\ payment.func.error = "ValueError"
    /\ payment.before.refreshed = 1
    /\ Len(payment.order.events) = 1
    /\ payment.code = "PAYMENT_ERROR"

\* The payment call with no payment app raised PaymentError.
C40_WitnessPaymentError ==
    /\ payment.func.outcome = "raise"
    /\ payment.func.error = "PaymentError"
    /\ Len(payment.order.events) = payment.actions

====
